---- MODULE Spec2Model ----
(***************************************************************************)
(* Model of the state-reconciliation and log subsystem of nexus-crate-flow *)
(* (backend/services/dockerService.js, backend/services/logService.js,     *)
(* backend/services/websocketService.js, backend/models/Container.js).     *)
(***************************************************************************)
EXTENDS Integers, Sequences, FiniteSets, TLC

(***************************************************************************)
(* Bounds of the model.                                                    *)
(***************************************************************************)
MaxRecords == 2
MaxEngine == 2
MaxExits == 1
MaxSettingsUpdates == 1
MaxCleanups == 1
MaxRestarts == 2
MaxAppends == 2
MaxClock == 2
MaxRotations == 1
MaxTail == 2
MaxConns == 1
MaxWsMessages == 3
MaxBroadcasts == 1
MaxChunks == 1
MaxCounter == 2
MaxCpus == 2

(***************************************************************************)
(* Value spaces.                                                           *)
(***************************************************************************)
\* rows of the containers table are keyed by id; Container.list orders them
\* by created_at DESC, which the model renders as descending id
RecIds == 1..MaxRecords
\* engine-side ids; 0 stands for a NULL docker_id column
EngineIds == 1..MaxEngine
NoDockerId == 0
Names == {"a", "b"}
\* container.State as the engine lists it
EngineStatuses == {"running", "exited"}
\* containers.status: an engine state, or a state only the registry knows
RecordStatuses == EngineStatuses \cup {"stopped", "created", "removed"}
NoRec == [name |-> "", docker_id |-> NoDockerId, status |-> "absent"]

VARIABLES
  registry,     \* containers table: record id -> row, NoRec when no such row
  engine,       \* what dockerManager.listContainers(true) returns, in order
  dbLogs,       \* container_logs table: record id -> rows in insertion order
  syncResult,   \* what the last syncContainers call returned, or that it threw
  syncPairs,    \* record id -> index of the engine object the last sync paired it with
  lastOp,       \* the operation that produced the current state
  settings,     \* container_settings table: record id -> "none", "on" or "off" (auto_restart)
  hmPc,         \* where the running monitorContainerHealth call stands
  hmList,       \* the records of its Container.list snapshot still to be visited
  hmResult,     \* its healthChecks array
  restartCalls, \* record id -> restarts the current health tick invoked
  autoFailed,   \* records whose last health-driven restart failed
  retryDue,     \* records the current tick found waiting for a retry when it began
  hmRestarted,  \* records the current tick restarted successfully
  exits,        \* number of container exits so far
  settingsUpdates, \* number of settings updates so far
  cleanups,     \* number of cleanupOrphanedContainers ticks so far
  orphanFaults, \* records whose inspect failed with another fault in the last cleanup tick
  orphanResult, \* the cleaned count the last cleanup tick returned
  startupScript,  \* containers.startup_script: record id -> whether the row has a script
  pendingScripts, \* the timers restartContainer has armed and that have not fired
  restarts,     \* number of direct restartContainer calls so far
  restartOut,   \* the last direct restartContainer call: its argument and what it returned
  scriptOut,    \* the last run of a startup script and how it ended
  files,        \* log directory: container id -> log type -> file, NoFile when missing
  rotated,      \* the rotated files `${logType}.log.${stamp}` of all directories
  clock,        \* the time
  appended,     \* container id -> log type -> contents written since the file was last emptied
  logOp,        \* the last operation of the log service, its arguments and result
  appends,      \* number of writeLog calls from outside so far
  rotations,    \* number of rotateLogs calls so far
  logStreams,   \* LogService.logStreams: container id -> registered streams
  streamOut,    \* what has been written to each registered stream
  watchPending, \* 'change' events of the file watcher not handled yet
  conn,         \* connection -> "none", "open" or "closed" (ws.readyState)
  session,      \* connection -> the closure variables of setupConnection
  clients,      \* WebSocketService.clients, in insertion order
  containerStreams,     \* WebSocketService.containerStreams: container id -> subscribers
  subscribedContainers, \* connection -> the closure's subscribedContainers
  inbox,        \* connection -> the messages sent to it
  wsLogService, \* WebSocketService.logService is set
  liveFor,      \* connection -> entries written while it was subscribed
  wsMessages,   \* number of client messages handled so far
  wsIn,         \* the last client message handled
  execStreams,  \* the exec streams handleCommandExecution opened and that have not ended
  replayPending, \* subscriptions whose readLogs of the replay has not resolved
  broadcasts,   \* number of broadcast calls so far
  wsOp,         \* the last broadcast or sweep of the channel
  lookupPending, \* subscriptions whose Container.findById has not resolved
  callIn,       \* the arguments of the last call of a function of the helpers
  callOut,      \* what that call returned
  running,      \* scheduled task -> its callbacks that have begun and not completed
  stopPc,       \* the record whose stop request awaits the update of its status, or 0
  stops,        \* number of stop requests so far
  writes,       \* the writeLog calls so far, in call order, and where each stands
  rotPc         \* where the running rotateLogs call stands

syncVars == <<syncResult, syncPairs, lastOp>>
hmVars == <<settings, hmPc, hmList, hmResult, restartCalls, autoFailed, retryDue, hmRestarted,
           exits, settingsUpdates>>
orphanVars == <<cleanups, orphanFaults, orphanResult>>
restartVars == <<startupScript, pendingScripts, restarts, restartOut, scriptOut>>
reconVars == <<registry, engine, dbLogs, syncVars, hmVars, orphanVars, restartVars>>
logVars == <<files, rotated, clock, appended, logOp, appends, rotations, logStreams, streamOut,
            watchPending>>
wsVars == <<conn, session, clients, containerStreams, subscribedContainers, inbox,
           wsLogService, liveFor, wsMessages, wsIn, execStreams, replayPending, broadcasts,
           wsOp, lookupPending>>
callVars == <<callIn, callOut>>
taskVars == <<running, stopPc, stops, writes, rotPc>>
vars == <<reconVars, logVars, wsVars, callVars, taskVars>>

Present(reg) == {i \in RecIds : reg[i] # NoRec}

\* Container.list({limit: 1000}): ORDER BY created_at DESC
RECURSIVE ListFrom(_, _)
ListFrom(reg, i) ==
  IF i = 0 THEN <<>>
  ELSE IF reg[i] # NoRec THEN <<i>> \o ListFrom(reg, i - 1)
       ELSE ListFrom(reg, i - 1)
ContainerList(reg) == ListFrom(reg, MaxRecords)

(***************************************************************************)
(* DockerService.syncContainers                                            *)
(***************************************************************************)
LogRow(content, type) == [content |-> content, type |-> type]

\* the predicate of dockerContainers.find in the first loop
MatchesRecord(dc, r) == dc.dockerId = r.docker_id \/ dc.name = r.name

\* Array.prototype.find over the engine list: the first element, in list
\* order, that satisfies the predicate (0 when there is none)
RECURSIVE FindDockerFrom(_, _, _)
FindDockerFrom(list, r, i) ==
  IF i > Len(list) THEN 0
  ELSE IF MatchesRecord(list[i], r) THEN i
       ELSE FindDockerFrom(list, r, i + 1)
FindDocker(list, r) == FindDockerFrom(list, r, 1)

\* the predicate of dbContainers.containers.find in the second loop
MatchesDocker(r, dc) == r.docker_id = dc.dockerId \/ r.name = dc.name

\* Container.updateStatus
updateStatus(reg, id, status) == [reg EXCEPT ![id].status = status]

\* updateDockerIdThrows on a docker_id column that is not UNIQUE: see below
\* Container.updateDockerId: the UPDATE is rejected when another row holds
\* the same docker_id (UNIQUE column), and the rejection is thrown
updateDockerIdUnchecked(reg, id, d) == FALSE
updateDockerIdThrows(reg, id, d) ==
  \E j \in RecIds \ {id} : reg[j] # NoRec /\ reg[j].docker_id = d
updateDockerId(reg, id, d) == [reg EXCEPT ![id].docker_id = d]

\* Container.addLog
addLog(logs, id, content, type) ==
  [logs EXCEPT ![id] = Append(@, LogRow(content, type))]

\* SyncRecord without the status guard of line 42: a record with no engine
\* object is marked stopped, and the warning logged, on every tick
SyncRecordAlwaysMarks(st, id, list) ==
  LET r == st.reg[id]
      k == FindDocker(list, r)
      paired == [st EXCEPT !.pairs[id] = k]
  IN IF st.threw THEN st
     ELSE IF k # 0 THEN
       LET dc == list[k]
           s1 == IF r.status # dc.status
                 THEN [paired EXCEPT !.reg = updateStatus(@, id, dc.status),
                                     !.updated = @ + 1]
                 ELSE paired
       IN IF r.docker_id = NoDockerId /\ dc.dockerId # NoDockerId
          THEN IF updateDockerIdThrows(s1.reg, id, dc.dockerId)
               THEN [s1 EXCEPT !.threw = TRUE]
               ELSE [s1 EXCEPT !.reg = updateDockerId(@, id, dc.dockerId),
                               !.updated = @ + 1,
                               !.synced = @ + 1]
          ELSE [s1 EXCEPT !.synced = @ + 1]
     ELSE [paired EXCEPT
             !.reg = updateStatus(@, id, "stopped"),
             !.logs = addLog(@, id, "Container not found in Docker, marked as stopped", "warning"),
             !.updated = @ + 1]

\* one iteration of the first loop (lines 20-48) on the record with this id
SyncRecord(st, id, list) ==
  LET r == st.reg[id]
      k == FindDocker(list, r)
      paired == [st EXCEPT !.pairs[id] = k]
  IN IF st.threw THEN st
     ELSE IF k # 0 THEN
       LET dc == list[k]
           s1 == IF r.status # dc.status
                 THEN [paired EXCEPT !.reg = updateStatus(@, id, dc.status),
                                     !.updated = @ + 1]
                 ELSE paired
       IN IF r.docker_id = NoDockerId /\ dc.dockerId # NoDockerId
          THEN IF updateDockerIdThrows(s1.reg, id, dc.dockerId)
               THEN [s1 EXCEPT !.threw = TRUE]
               ELSE [s1 EXCEPT !.reg = updateDockerId(@, id, dc.dockerId),
                               !.updated = @ + 1,
                               !.synced = @ + 1]
          ELSE [s1 EXCEPT !.synced = @ + 1]
     ELSE IF r.status # "stopped"
          THEN [paired EXCEPT
                  !.reg = updateStatus(@, id, "stopped"),
                  !.logs = addLog(@, id, "Container not found in Docker, marked as stopped", "warning"),
                  !.updated = @ + 1]
          ELSE paired

RECURSIVE SyncRecords(_, _, _, _)
SyncRecords(st, ids, i, list) ==
  IF i > Len(ids) THEN st
  ELSE SyncRecords(SyncRecord(st, ids[i], list), ids, i + 1, list)

\* Container.create assigns a fresh id; the new row is the newest one
NewId(reg) == Cardinality(Present(reg)) + 1

\* ImportDocker without the test of the nexus-crate-flow label of line 57
ImportDockerAnyLabel(st, dc, snapshot) ==
  LET found == \E i \in 1..Len(snapshot) : MatchesDocker(st.reg[snapshot[i]], dc)
      id == NewId(st.reg)
      row == [name |-> dc.name, docker_id |-> NoDockerId, status |-> "created"]
      made == [st.reg EXCEPT ![id] = row]
  IN IF st.threw \/ found THEN st
     ELSE IF updateDockerIdThrows(made, id, dc.dockerId)
          THEN [st EXCEPT !.reg = made]
          ELSE [st EXCEPT
                  !.reg = updateStatus(updateDockerId(made, id, dc.dockerId), id, dc.status),
                  !.logs = addLog(@, id, "Container auto-imported from Docker", "info"),
                  !.created = @ + 1]

\* one iteration of the second loop (lines 51-75) on one engine object;
\* snapshot is the list of records fetched at line 13
ImportDocker(st, dc, snapshot) ==
  LET found == \E i \in 1..Len(snapshot) : MatchesDocker(st.reg[snapshot[i]], dc)
      id == NewId(st.reg)
      row == [name |-> dc.name, docker_id |-> NoDockerId, status |-> "created"]
      made == [st.reg EXCEPT ![id] = row]
  IN IF st.threw \/ found \/ ~dc.labelled THEN st
     ELSE IF updateDockerIdThrows(made, id, dc.dockerId)
          THEN [st EXCEPT !.reg = made]
          ELSE [st EXCEPT
                  !.reg = updateStatus(updateDockerId(made, id, dc.dockerId), id, dc.status),
                  !.logs = addLog(@, id, "Container auto-imported from Docker", "info"),
                  !.created = @ + 1]

RECURSIVE ImportDockers(_, _, _, _)
ImportDockers(st, list, i, snapshot) ==
  IF i > Len(list) THEN st
  ELSE ImportDockers(ImportDocker(st, list[i], snapshot), list, i + 1, snapshot)

\* the number of rows the second loop of a tick would create
Importable(reg, list) ==
  Cardinality({i \in 1..Len(list) :
     list[i].labelled /\ ~\E j \in Present(reg) : MatchesDocker(reg[j], list[i])})

Unpaired == [i \in RecIds |-> -1]

SyncOutcome(reg, logs, list) ==
  LET snapshot == ContainerList(reg)
      st0 == [reg |-> reg, logs |-> logs, pairs |-> Unpaired, threw |-> FALSE,
              synced |-> 0, updated |-> 0, created |-> 0]
      st1 == SyncRecords(st0, snapshot, 1, list)
  IN ImportDockers(st1, list, 1, snapshot)

\* the store rejects an update of the first loop, which ends the tick
SyncAborts(reg, logs, list) ==
  SyncRecords([reg |-> reg, logs |-> logs, pairs |-> Unpaired, threw |-> FALSE,
               synced |-> 0, updated |-> 0, created |-> 0],
              ContainerList(reg), 1, list).threw

\* a tick runs when the rows it creates fit the registry of the model
syncContainers ==
  /\ \/ SyncAborts(registry, dbLogs, engine)
     \/ Cardinality(Present(registry)) + Importable(registry, engine) <= MaxRecords
  /\ LET out == SyncOutcome(registry, dbLogs, engine)
     IN /\ registry' = out.reg
        /\ dbLogs' = out.logs
        /\ syncPairs' = out.pairs
        /\ syncResult' = IF out.threw
                         THEN [threw |-> TRUE, synced |-> 0, updated |-> 0, created |-> 0]
                         ELSE [threw |-> FALSE, synced |-> out.synced,
                               updated |-> out.updated, created |-> out.created]
  /\ lastOp' = IF lastOp \in {"sync", "sync2"} THEN "sync2" ELSE "sync"
  /\ UNCHANGED <<engine, hmVars>>
  /\ UNCHANGED <<orphanVars, restartVars, logVars, wsVars>>
  /\ UNCHANGED <<callVars, taskVars>>

(***************************************************************************)
(* The container engine, as the reconciler sees it change.                 *)
(***************************************************************************)
\* a container starts or exits
EngineSetStatus ==
  \E i \in 1..Len(engine), s \in EngineStatuses :
    /\ engine[i].status # s
    /\ engine' = [engine EXCEPT ![i].status = s]
    /\ lastOp' = "engine"
    /\ UNCHANGED <<registry, dbLogs, syncResult, syncPairs, hmVars>>
    /\ UNCHANGED <<orphanVars, restartVars, logVars, wsVars>>
    /\ UNCHANGED <<callVars, taskVars>>

\* a container is removed from the engine
EngineRemove ==
  \E i \in 1..Len(engine) :
    /\ engine' = [j \in 1..(Len(engine) - 1) |-> IF j < i THEN engine[j] ELSE engine[j + 1]]
    /\ lastOp' = "engine"
    /\ UNCHANGED <<registry, dbLogs, syncResult, syncPairs, hmVars>>
    /\ UNCHANGED <<orphanVars, restartVars, logVars, wsVars>>
    /\ UNCHANGED <<callVars, taskVars>>

(***************************************************************************)
(* States of the registry and of the engine.                               *)
(***************************************************************************)
Rows == [name : Names, docker_id : {NoDockerId} \cup EngineIds,
         status : {"running", "stopped"}]

\* rows 1..n exist; no two rows share a docker_id
Registries ==
  {reg \in [RecIds -> Rows \cup {NoRec}] :
     /\ \A i \in RecIds : reg[i] = NoRec => \A j \in i..MaxRecords : reg[j] = NoRec
     /\ \A i, j \in RecIds :
          (i # j /\ reg[i] # NoRec /\ reg[j] # NoRec /\ reg[i].docker_id # NoDockerId)
             => reg[i].docker_id # reg[j].docker_id}

EngineObjects == [dockerId : EngineIds, name : Names,
                  status : EngineStatuses, labelled : BOOLEAN]

\* the engine keeps ids and names unique
EngineLists ==
  UNION {{l \in [1..n -> EngineObjects] :
            \A i, j \in 1..n : i # j => (l[i].dockerId # l[j].dockerId /\ l[i].name # l[j].name)}
         : n \in 0..MaxEngine}

NoResult == [threw |-> FALSE, synced |-> 0, updated |-> 0, created |-> 0]

(***************************************************************************)
(* Value spaces of the log store and of the channel.                       *)
(***************************************************************************)
\* one file per log type in the directory container-<id>
Categories == {"application", "startup", "error", "info"}
\* createContainerLogDirectory creates these three when they are missing
DefaultLogFiles == {"application", "startup", "error"}
NoFile == [content |-> <<>>, mtime |-> -1]
\* streams registered with LogService.addLogStream
StreamIds == {1}
NoLogOp == [op |-> "none", cid |-> 0, arg |-> 0, result |-> 0]

\* WebSocket connections, and what a verified token decodes to
ConnIds == 1..MaxConns
Tokens == {[userId |-> 1, role |-> "user"], [userId |-> 2, role |-> "user"],
           [userId |-> 2, role |-> "admin"]}
\* a token that jwt.verify rejects
BadToken == [userId |-> 0, role |-> "bad"]
\* a message without a token
NoToken == [userId |-> 0, role |-> "none"]
\* no message has been handled
NoMessage == [ws |-> 0, type |-> "none", token |-> NoToken, container_id |-> 0]
\* the closure variables clientId, userId, authenticated of setupConnection
NoSession == [clientId |-> 0, userId |-> 0, authenticated |-> FALSE]
\* containers.created_by of the rows the channel looks up
CreatedBy(c) == 1
\* tail of the replay in handleLogSubscription
ReplayTail == 50

\* no log has been written
InitLogIdle ==
  /\ files = [c \in RecIds |-> [cat \in Categories |-> NoFile]]
  /\ rotated = {}
  /\ clock = 0
  /\ appended = [c \in RecIds |-> [cat \in Categories |-> <<>>]]
  /\ logOp = NoLogOp
  /\ appends = 0
  /\ rotations = 0
  /\ logStreams = [c \in RecIds |-> {}]
  /\ streamOut = [s \in StreamIds |-> <<>>]
  /\ watchPending = {}

\* no helper has been called
NoCall == [fn |-> "none"]

InitCallIdle ==
  /\ callIn = NoCall
  /\ callOut = NoCall

\* the tasks setupScheduledTasks registers whose callback awaits
Tasks == {"syncContainers", "monitorContainerHealth", "cleanupOldLogs", "rotateLogs",
          "cleanupOrphanedContainers"}

\* no rotateLogs call is running
NoRotation == [cid |-> 0, maxSize |-> 0, rest |-> <<>>, stage |-> "idle"]

\* no callback of a scheduled task has begun
InitTaskIdle ==
  /\ running = [t \in Tasks |-> 0]
  /\ stopPc = 0
  /\ stops = 0
  /\ writes = <<>>
  /\ rotPc = NoRotation

\* no client has connected
InitChannelIdle ==
  /\ conn = [w \in ConnIds |-> "none"]
  /\ session = [w \in ConnIds |-> NoSession]
  /\ clients = <<>>
  /\ containerStreams = [c \in RecIds |-> {}]
  /\ subscribedContainers = [w \in ConnIds |-> {}]
  /\ inbox = [w \in ConnIds |-> <<>>]
  /\ wsLogService = FALSE
  /\ liveFor = [w \in ConnIds |-> {}]
  /\ wsMessages = 0
  /\ wsIn = NoMessage
  /\ execStreams = {}
  /\ replayPending = {}
  /\ broadcasts = 0
  /\ wsOp = [op |-> "none", container_id |-> 0]
  /\ lookupPending = {}

\* no health tick has run
InitHealthIdle ==
  /\ hmPc = "idle"
  /\ hmList = <<>>
  /\ hmResult = <<>>
  /\ restartCalls = [i \in RecIds |-> 0]
  /\ autoFailed = {}
  /\ retryDue = {}
  /\ hmRestarted = {}
  /\ exits = 0
  /\ settingsUpdates = 0

\* no sync tick has run
InitSyncIdle ==
  /\ syncResult = NoResult
  /\ syncPairs = Unpaired
  /\ lastOp = "init"

\* no record has a startup script and no restart has been asked for
InitRestartIdle ==
  /\ startupScript = [i \in RecIds |-> FALSE]
  /\ pendingScripts = {}
  /\ restarts = 0
  /\ restartOut = [id |-> 0, ok |-> FALSE, threw |-> FALSE, status |-> "none"]
  /\ scriptOut = [id |-> 0, at |-> 0, outcome |-> "none"]

\* no cleanup tick has run
InitOrphanIdle ==
  /\ cleanups = 0
  /\ orphanFaults = {}
  /\ orphanResult = 0

InitSync ==
  /\ registry \in Registries
  /\ engine \in EngineLists
  /\ dbLogs = [i \in RecIds |-> <<>>]
  /\ settings = [i \in RecIds |-> "none"]
  /\ InitSyncIdle
  /\ InitHealthIdle
  /\ InitOrphanIdle
  /\ InitRestartIdle
  /\ InitLogIdle
  /\ InitChannelIdle
  /\ InitCallIdle /\ InitTaskIdle

NextSync == syncContainers \/ EngineSetStatus \/ EngineRemove

SpecSync == InitSync /\ [][NextSync]_vars

(***************************************************************************)
(* DockerService.restartContainer                                          *)
(***************************************************************************)
\* the position in the engine of the object with this id (0: no such container)
EngineIndex(list, d) ==
  IF \E i \in 1..Len(list) : list[i].dockerId = d
  THEN CHOOSE i \in 1..Len(list) : list[i].dockerId = d
  ELSE 0

RestartInitiatedRow == LogRow("Container restart initiated", "info")
RestartedRow == LogRow("Container restarted successfully", "info")
RestartFailedRow == LogRow("Container restart failed", "error")

\* restartContainer without the updateStatus('running') of line 297
restartContainerKeepsStatus(reg, logs, list, id, ok) ==
  LET r == reg[id]
      k == EngineIndex(list, r.docker_id)
  IN IF r = NoRec
     THEN [reg |-> reg, logs |-> logs, eng |-> list, threw |-> TRUE]
     ELSE IF r.docker_id = NoDockerId
     THEN [reg |-> reg, logs |-> [logs EXCEPT ![id] = Append(@, RestartFailedRow)],
           eng |-> list, threw |-> TRUE]
     ELSE IF ok /\ k # 0
     THEN [reg |-> reg,
           logs |-> [logs EXCEPT ![id] = @ \o <<RestartInitiatedRow, RestartedRow>>],
           eng |-> [list EXCEPT ![k].status = "running"],
           threw |-> FALSE]
     ELSE [reg |-> reg,
           logs |-> [logs EXCEPT ![id] = @ \o <<RestartInitiatedRow, RestartFailedRow>>],
           eng |-> list, threw |-> TRUE]

\* restartContainer(id) when the engine's restart call succeeds (ok) or throws
restartContainer(reg, logs, list, id, ok) ==
  LET r == reg[id]
      k == EngineIndex(list, r.docker_id)
  IN IF r = NoRec
     THEN [reg |-> reg, logs |-> logs, eng |-> list, threw |-> TRUE]
     ELSE IF r.docker_id = NoDockerId
     THEN [reg |-> reg, logs |-> [logs EXCEPT ![id] = Append(@, RestartFailedRow)],
           eng |-> list, threw |-> TRUE]
     ELSE IF ok /\ k # 0
     THEN [reg |-> updateStatus(reg, id, "running"),
           logs |-> [logs EXCEPT ![id] = @ \o <<RestartInitiatedRow, RestartedRow>>],
           eng |-> [list EXCEPT ![k].status = "running"],
           threw |-> FALSE]
     ELSE [reg |-> reg,
           logs |-> [logs EXCEPT ![id] = @ \o <<RestartInitiatedRow, RestartFailedRow>>],
           eng |-> list, threw |-> TRUE]

\* setTimeout(..., 2000), in the unit of the clock
GraceDelay == 2

NoRestart == [id |-> 0, ok |-> FALSE, threw |-> FALSE, status |-> "none"]
NoScript == [id |-> 0, at |-> 0, outcome |-> "none"]

\* lines 301-309 with the script run without the delay
scheduleStartupScriptAtOnce(pending, id, n, now) ==
  pending \cup {[id |-> id, n |-> n, at |-> now, due |-> now]}

\* lines 301-309: the timer that runs the startup script is armed
scheduleStartupScript(pending, id, n, now) ==
  pending \cup {[id |-> id, n |-> n, at |-> now, due |-> now + GraceDelay]}

\* line 300: if (container.startup_script), after a restart that succeeded
Scheduled(pending, id, threw, n, now) ==
  IF ~threw /\ startupScript[id] THEN scheduleStartupScript(pending, id, n, now) ELSE pending

(***************************************************************************)
(* DockerService.monitorContainerHealth, one step per engine call          *)
(***************************************************************************)
HealthStoppedRow == LogRow("Container health check: status updated to stopped", "warning")
AutoRestartRow == LogRow("Auto-restart enabled, attempting to restart container", "info")
AutoRestartFailedRow == LogRow("Auto-restart failed", "error")

\* Container.list({limit: 1000, status: 'running'}): the objects the tick holds
RECURSIVE RunningFrom(_, _)
RunningFrom(reg, i) ==
  IF i = 0 THEN <<>>
  ELSE IF reg[i] # NoRec /\ reg[i].status = "running"
       THEN <<[id |-> i, docker_id |-> reg[i].docker_id, status |-> "running", actual |-> ""]>>
            \o RunningFrom(reg, i - 1)
       ELSE RunningFrom(reg, i - 1)
RunningList(reg) == RunningFrom(reg, MaxRecords)

\* settings && settings.auto_restart
AutoRestartOn(id) == settings[id] = "on"

HealthCheck(c, actual, healthy) ==
  [container_id |-> c.id, expected_status |-> c.status,
   actual_status |-> actual, healthy |-> healthy]

\* line 325: the tick starts and fetches the running records
monitorBegin ==
  /\ hmPc = "idle"
  /\ hmPc' = "loop"
  /\ hmList' = RunningList(registry)
  /\ hmResult' = <<>>
  /\ restartCalls' = [i \in RecIds |-> 0]
  /\ hmRestarted' = {}
  /\ retryDue' = {id \in autoFailed :
                    /\ registry[id] # NoRec
                    /\ registry[id].status = "stopped"
                    /\ AutoRestartOn(id)
                    /\ LET k == EngineIndex(engine, registry[id].docker_id)
                       IN k # 0 /\ engine[k].status # "running"}
  /\ UNCHANGED <<registry, engine, dbLogs, syncVars, settings, autoFailed, exits, settingsUpdates>>
  /\ UNCHANGED <<orphanVars, restartVars, logVars, wsVars>>
  /\ UNCHANGED <<callVars, taskVars>>

\* line 329: a record without docker_id is passed over
monitorSkip ==
  /\ hmPc = "loop"
  /\ hmList # <<>>
  /\ Head(hmList).docker_id = NoDockerId
  /\ hmList' = Tail(hmList)
  /\ UNCHANGED <<registry, engine, dbLogs, syncVars, settings, hmPc, hmResult,
                 restartCalls, autoFailed, retryDue, hmRestarted, exits, settingsUpdates>>
  /\ UNCHANGED <<orphanVars, restartVars, logVars, wsVars>>
  /\ UNCHANGED <<callVars, taskVars>>

\* line 331 without the try/catch of lines 330 and 358-367: the throw of the
\* inspect reaches the catch of line 373, which rethrows, and the tick ends
monitorInspectAborts ==
  /\ hmPc = "loop"
  /\ hmList # <<>>
  /\ Head(hmList).docker_id # NoDockerId
  /\ hmPc' = "idle"
  /\ UNCHANGED <<registry, engine, dbLogs, syncVars, settings, hmList, hmResult,
                 restartCalls, autoFailed, retryDue, hmRestarted, exits, settingsUpdates>>
  /\ UNCHANGED <<orphanVars, restartVars, logVars, wsVars>>
  /\ UNCHANGED <<callVars, taskVars>>

\* lines 331, 358-367: the inspect throws (no such container, or any fault)
monitorInspectFails ==
  /\ hmPc = "loop"
  /\ hmList # <<>>
  /\ Head(hmList).docker_id # NoDockerId
  /\ hmResult' = Append(hmResult, HealthCheck(Head(hmList), "unknown", FALSE))
  /\ hmList' = Tail(hmList)
  /\ UNCHANGED <<registry, engine, dbLogs, syncVars, settings, hmPc,
                 restartCalls, autoFailed, retryDue, hmRestarted, exits, settingsUpdates>>
  /\ UNCHANGED <<orphanVars, restartVars, logVars, wsVars>>
  /\ UNCHANGED <<callVars, taskVars>>

\* lines 331-333, 350-356: the engine reports the container running
monitorHealthy ==
  /\ hmPc = "loop"
  /\ hmList # <<>>
  /\ LET c == Head(hmList)
         k == EngineIndex(engine, c.docker_id)
     IN /\ c.docker_id # NoDockerId
        /\ k # 0
        /\ engine[k].status = "running"
        /\ hmResult' = Append(hmResult, HealthCheck(c, engine[k].status, c.status = "running"))
  /\ hmList' = Tail(hmList)
  /\ UNCHANGED <<registry, engine, dbLogs, syncVars, settings, hmPc,
                 restartCalls, autoFailed, retryDue, hmRestarted, exits, settingsUpdates>>
  /\ UNCHANGED <<orphanVars, restartVars, logVars, wsVars>>
  /\ UNCHANGED <<callVars, taskVars>>

\* lines 333-341 without the auto-restart check of line 340
monitorMarkStoppedAlwaysRestarts ==
  /\ hmPc = "loop"
  /\ hmList # <<>>
  /\ LET c == Head(hmList)
         k == EngineIndex(engine, c.docker_id)
     IN /\ c.docker_id # NoDockerId
        /\ k # 0
        /\ engine[k].status # "running"
        /\ c.status = "running"
        /\ registry' = updateStatus(registry, c.id, "stopped")
        /\ dbLogs' = [dbLogs EXCEPT ![c.id] = @ \o <<HealthStoppedRow, AutoRestartRow>>]
        /\ restartCalls' = [restartCalls EXCEPT ![c.id] = @ + 1]
        /\ hmPc' = "restart"
        /\ hmList' = [hmList EXCEPT ![1].status = "stopped", ![1].actual = engine[k].status]
        /\ UNCHANGED hmResult
  /\ UNCHANGED <<engine, syncVars, settings, autoFailed, retryDue, hmRestarted, exits,
                 settingsUpdates>>
  /\ UNCHANGED <<orphanVars, restartVars, logVars, wsVars>>
  /\ UNCHANGED <<callVars, taskVars>>

\* lines 333-341: the engine reports the container not running; the record is
\* marked stopped, and the restart is invoked when auto-restart is enabled
monitorMarkStopped ==
  /\ hmPc = "loop"
  /\ hmList # <<>>
  /\ LET c == Head(hmList)
         k == EngineIndex(engine, c.docker_id)
     IN /\ c.docker_id # NoDockerId
        /\ k # 0
        /\ engine[k].status # "running"
        /\ c.status = "running"
        /\ registry' = updateStatus(registry, c.id, "stopped")
        /\ IF AutoRestartOn(c.id)
           THEN /\ dbLogs' = [dbLogs EXCEPT ![c.id] = @ \o <<HealthStoppedRow, AutoRestartRow>>]
                /\ restartCalls' = [restartCalls EXCEPT ![c.id] = @ + 1]
                /\ hmPc' = "restart"
                /\ hmList' = [hmList EXCEPT ![1].status = "stopped", ![1].actual = engine[k].status]
                /\ UNCHANGED hmResult
           ELSE /\ dbLogs' = [dbLogs EXCEPT ![c.id] = Append(@, HealthStoppedRow)]
                /\ hmResult' = Append(hmResult,
                      HealthCheck([c EXCEPT !.status = "stopped"], engine[k].status, TRUE))
                /\ hmList' = Tail(hmList)
                /\ UNCHANGED <<restartCalls, hmPc>>
  /\ UNCHANGED <<engine, syncVars, settings, autoFailed, retryDue, hmRestarted, exits,
                 settingsUpdates>>
  /\ UNCHANGED <<orphanVars, restartVars, logVars, wsVars>>
  /\ UNCHANGED <<callVars, taskVars>>

\* lines 342-356: restartContainer runs; its failure is caught and logged
monitorRestart ==
  /\ hmPc = "restart"
  /\ LET c == Head(hmList)
     IN \E ok \in BOOLEAN :
          LET out == restartContainer(registry, dbLogs, engine, c.id, ok)
          IN /\ registry' = out.reg
             /\ engine' = out.eng
             /\ dbLogs' = IF out.threw
                          THEN [out.logs EXCEPT ![c.id] = Append(@, AutoRestartFailedRow)]
                          ELSE out.logs
             /\ autoFailed' = IF out.threw THEN autoFailed \cup {c.id} ELSE autoFailed \ {c.id}
             /\ hmRestarted' = IF out.threw THEN hmRestarted ELSE hmRestarted \cup {c.id}
             /\ hmResult' = Append(hmResult, HealthCheck(c, c.actual, TRUE))
             /\ pendingScripts' = Scheduled(pendingScripts, c.id, out.threw, 0, clock)
  /\ hmPc' = "loop"
  /\ hmList' = Tail(hmList)
  /\ UNCHANGED <<syncVars, settings, restartCalls, retryDue, exits, settingsUpdates>>
  /\ UNCHANGED <<startupScript, restarts, restartOut, scriptOut>>
  /\ UNCHANGED <<orphanVars, logVars, wsVars>>
  /\ UNCHANGED <<callVars, taskVars>>

\* line 371: every record of the snapshot was visited
monitorEnd ==
  /\ hmPc = "loop"
  /\ hmList = <<>>
  /\ hmPc' = "idle"
  /\ UNCHANGED <<registry, engine, dbLogs, syncVars, settings, hmList, hmResult,
                 restartCalls, autoFailed, retryDue, hmRestarted, exits, settingsUpdates>>
  /\ UNCHANGED <<orphanVars, restartVars, logVars, wsVars>>
  /\ UNCHANGED <<callVars, taskVars>>

\* the process of a running container exits
ContainerExits ==
  /\ exits < MaxExits
  /\ \E i \in 1..Len(engine) :
       /\ engine[i].status = "running"
       /\ engine' = [engine EXCEPT ![i].status = "exited"]
  /\ exits' = exits + 1
  /\ UNCHANGED <<registry, dbLogs, syncVars, settings, hmPc, hmList, hmResult,
                 restartCalls, autoFailed, retryDue, hmRestarted, settingsUpdates>>
  /\ UNCHANGED <<orphanVars, restartVars, logVars, wsVars>>
  /\ UNCHANGED <<callVars, taskVars>>

\* PUT /api/settings/:id sets auto_restart through Container.updateSettings
updateSettings ==
  /\ settingsUpdates < MaxSettingsUpdates
  /\ \E id \in Present(registry), v \in {"on", "off"} :
       /\ settings[id] # v
       /\ settings' = [settings EXCEPT ![id] = v]
       /\ dbLogs' = addLog(dbLogs, id, "Container settings updated", "info")
  /\ settingsUpdates' = settingsUpdates + 1
  /\ UNCHANGED <<registry, engine, syncVars, hmPc, hmList, hmResult,
                 restartCalls, autoFailed, retryDue, hmRestarted, exits>>
  /\ UNCHANGED <<orphanVars, restartVars, logVars, wsVars>>
  /\ UNCHANGED <<callVars, taskVars>>

HealthRegistries ==
  {reg \in Registries : \A i \in RecIds : reg[i] # NoRec => reg[i].name = "a"}

HealthEngineLists ==
  {l \in EngineLists : \A i \in 1..Len(l) : ~l[i].labelled}

InitHealth ==
  /\ registry \in HealthRegistries
  /\ engine \in HealthEngineLists
  /\ dbLogs = [i \in RecIds |-> <<>>]
  /\ settings \in {f \in [RecIds -> {"none", "on", "off"}] :
                     \A i \in RecIds : registry[i] = NoRec => f[i] = "none"}
  /\ InitSyncIdle
  /\ InitHealthIdle
  /\ InitOrphanIdle
  /\ InitRestartIdle
  /\ InitLogIdle
  /\ InitChannelIdle
  /\ InitCallIdle /\ InitTaskIdle

NextHealth ==
  \/ monitorBegin
  \/ monitorSkip
  \/ monitorInspectFails
  \/ monitorHealthy
  \/ monitorMarkStopped
  \/ monitorRestart
  \/ monitorEnd
  \/ ContainerExits
  \/ updateSettings

SpecHealth == InitHealth /\ [][NextHealth]_vars

(***************************************************************************)
(* DockerService.cleanupOrphanedContainers                                 *)
(***************************************************************************)
RemovedRow == LogRow("Container removed from Docker, status updated", "warning")

\* dockerManager.getContainer(docker_id): the inspect answers, fails with
\* 'No such container' when the engine has no such object, or fails with
\* another fault (engine not connected, engine error)
OrphanInspect(list, r, fault) ==
  IF fault THEN "fault"
  ELSE IF EngineIndex(list, r.docker_id) = 0 THEN "no such container"
  ELSE "ok"

\* lines 265-267 with a DELETE in place of updateStatus('removed')
OrphanMarkDeletesRow(st, id) ==
  [st EXCEPT !.reg[id] = NoRec,
             !.logs = addLog(@, id, RemovedRow.content, RemovedRow.type),
             !.cleaned = @ + 1]

\* lines 265-267: the record is marked removed and the warning logged
OrphanMark(st, id) ==
  [st EXCEPT !.reg = updateStatus(@, id, "removed"),
             !.logs = addLog(@, id, RemovedRow.content, RemovedRow.type),
             !.cleaned = @ + 1]

\* lines 259-269 without the test of the error message
OrphanRecordAnyFault(st, id, list, faults) ==
  LET r == st.reg[id]
  IN IF r.docker_id = NoDockerId THEN st
     ELSE IF OrphanInspect(list, r, id \in faults) # "ok"
          THEN OrphanMark(st, id)
          ELSE st

\* one iteration of the loop (lines 258-270) on the record with this id
OrphanRecord(st, id, list, faults) ==
  LET r == st.reg[id]
  IN IF r.docker_id = NoDockerId THEN st
     ELSE IF OrphanInspect(list, r, id \in faults) = "no such container"
          THEN OrphanMark(st, id)
          ELSE st

RECURSIVE OrphanRecords(_, _, _, _, _)
OrphanRecords(st, ids, i, list, faults) ==
  IF i > Len(ids) THEN st
  ELSE OrphanRecords(OrphanRecord(st, ids[i], list, faults), ids, i + 1, list, faults)

OrphanOutcome(reg, logs, list, faults) ==
  OrphanRecords([reg |-> reg, logs |-> logs, cleaned |-> 0], ContainerList(reg), 1, list, faults)

\* one tick of the hourly job; faults are the records whose inspect fails
\* with a fault other than 'No such container'
cleanupOrphanedContainers ==
  /\ cleanups < MaxCleanups
  /\ \E faults \in SUBSET Present(registry) :
       \E out \in {OrphanOutcome(registry, dbLogs, engine, faults)} :
         /\ registry' = out.reg
         /\ dbLogs' = out.logs
         /\ orphanResult' = out.cleaned
         /\ orphanFaults' = faults
  /\ cleanups' = cleanups + 1
  /\ lastOp' = "orphan"
  /\ UNCHANGED <<engine, syncResult, syncPairs, hmVars>>
  /\ UNCHANGED <<restartVars, logVars, wsVars>>
  /\ UNCHANGED <<callVars, taskVars>>

(***************************************************************************)
(* The reconciler: the three periodic jobs of server.js side by side, the  *)
(* engine changing under them.                                             *)
(***************************************************************************)
\* engine lists whose containers go by the name the records have
ReconEngineLists ==
  {l \in HealthEngineLists : \A i \in 1..Len(l) : l[i].name = "a"}

\* every record has a settings row with auto_restart at its default, 1
InitRecon ==
  /\ registry \in HealthRegistries
  /\ engine \in ReconEngineLists
  /\ dbLogs = [i \in RecIds |-> <<>>]
  /\ settings = [i \in RecIds |-> IF registry[i] = NoRec THEN "none" ELSE "on"]
  /\ InitSyncIdle
  /\ InitHealthIdle
  /\ InitOrphanIdle
  /\ InitRestartIdle
  /\ InitLogIdle
  /\ InitChannelIdle
  /\ InitCallIdle /\ InitTaskIdle

NextRecon ==
  \/ syncContainers
  \/ cleanupOrphanedContainers
  \/ monitorBegin
  \/ monitorSkip
  \/ monitorInspectFails
  \/ monitorHealthy
  \/ monitorMarkStopped
  \/ monitorRestart
  \/ monitorEnd
  \/ ContainerExits
  \/ EngineRemove

SpecRecon == InitRecon /\ [][NextRecon]_vars

\* the steps of the Health Monitor tick
monitorContainerHealth ==
  \/ monitorBegin
  \/ monitorSkip
  \/ monitorInspectFails
  \/ monitorHealthy
  \/ monitorMarkStopped
  \/ monitorRestart
  \/ monitorEnd

\* every record runs and has auto_restart at its default, and the engine
\* object of every record that carries a docker_id exists and runs
InitRevive ==
  /\ InitRecon
  /\ \A i \in Present(registry) :
       /\ registry[i].status = "running"
       /\ registry[i].docker_id # NoDockerId
            => EngineIndex(engine, registry[i].docker_id) # 0
  /\ \A k \in 1..Len(engine) : engine[k].status = "running"

NextRevive ==
  \/ syncContainers
  \/ monitorBegin
  \/ monitorSkip
  \/ monitorInspectFails
  \/ monitorHealthy
  \/ monitorMarkStopped
  \/ monitorRestart
  \/ monitorEnd
  \/ ContainerExits

SpecRevive == InitRevive /\ [][NextRevive]_vars

\* the scheduler keeps firing both jobs, a started tick runs on, and an
\* inspect that is tried again and again does not fail every time
FairSpecRevive ==
  /\ SpecRevive
  /\ WF_vars(syncContainers)
  /\ WF_vars(monitorContainerHealth)
  /\ SF_vars(monitorMarkStopped)

(***************************************************************************)
(* LogService: the per-container log files                                 *)
(***************************************************************************)
\* text is a sequence of tokens: Ch(c) is a piece of text, Ch("NL") a line
\* feed, Ch("SP") a blank; Stamp(t) is the prefix "[<ISO time t>] " of a line
Ch(c) == [ch |-> c]
Stamp(t) == [ts |-> t]
NL == Ch("NL")
SP == Ch("SP")
IsStamp(tok) == DOMAIN tok = {"ts"}

\* the line writeLog appends: `[${timestamp}] ${content}\n`
LogLine(t, content) == <<Stamp(t)>> \o content \o <<NL>>

\* fs.stat(...).size
FileSize(file) == Len(file.content)

FileExists(fs, c, cat) == fs[c][cat] # NoFile
DirExists(fs, c) == \E cat \in Categories : FileExists(fs, c, cat)

\* createContainerLogDirectory: mkdir -p, then every missing default file is
\* created empty
createContainerLogDirectory(fs, c, now) ==
  [fs EXCEPT ![c] = [cat \in Categories |->
     IF cat \in DefaultLogFiles /\ fs[c][cat] = NoFile
     THEN [content |-> <<>>, mtime |-> now]
     ELSE fs[c][cat]]]

\* fs.appendFile
appendFile(fs, c, cat, text, now) ==
  [fs EXCEPT ![c][cat] =
     [content |-> (IF @ = NoFile THEN <<>> ELSE @.content) \o text, mtime |-> now]]

\* content.split('\n')
RECURSIVE SplitLines(_)
SplitLines(text) ==
  IF \A i \in 1..Len(text) : text[i] # NL THEN <<text>>
  ELSE LET k == CHOOSE i \in 1..Len(text) :
                  text[i] = NL /\ \A j \in 1..(i - 1) : text[j] # NL
       IN <<SubSeq(text, 1, k - 1)>> \o SplitLines(SubSeq(text, k + 1, Len(text)))

\* line.trim() is empty
IsBlank(line) == \A i \in 1..Len(line) : line[i] = SP

\* line.match(/^\[([^\]]+)\]/): the line starts with a timestamp prefix
HasStamp(line) == Len(line) >= 1 /\ IsStamp(line[1])

\* the since filter of lines 112-122; since = -1 stands for null
SinceKeeps(line, since) ==
  since = -1 \/ ~HasStamp(line) \/ line[1].ts >= since

\* lines.slice(-tail) when tail > 0
LastLines(lines, tail) ==
  IF tail > 0 /\ Len(lines) > tail
  THEN SubSeq(lines, Len(lines) - tail + 1, Len(lines))
  ELSE lines

\* the map of lines 130-146: /^\[([^\]]+)\] (.*)$/ or the whole line
ParseLine(line, logType, now) ==
  IF HasStamp(line)
  THEN [timestamp |-> line[1].ts, content |-> Tail(line), source |-> "file", type |-> logType]
  ELSE [timestamp |-> now, content |-> line, source |-> "file", type |-> logType]

\* readLogs(containerId, {logType, tail, since})
readLogs(fs, c, logType, tail, since, now) ==
  IF ~FileExists(fs, c, logType) THEN <<>>
  ELSE LET NotBlank(l) == ~IsBlank(l)
           Since(l) == SinceKeeps(l, since)
           lines == SelectSeq(SelectSeq(SplitLines(fs[c][logType].content), NotBlank), Since)
           last == LastLines(lines, tail)
       IN [i \in 1..Len(last) |-> ParseLine(last[i], logType, now)]

\* notifyLogUpdate: the entry is written to every stream registered for the
\* container with addLogStream
notifyLogUpdate(out, streams, c, entry) ==
  [s \in DOMAIN out |-> IF s \in streams[c] THEN Append(out[s], entry) ELSE out[s]]

\* writeLog(containerId, content, logType) on the state st of the log store
writeLog(st, c, content, logType, now) ==
  LET made == createContainerLogDirectory(st.files, c, now)
      wrote == appendFile(made, c, logType, LogLine(now, content), now)
  IN [st EXCEPT
        !.files = wrote,
        !.logs = IF st.reg[c] # NoRec THEN addLog(@, c, content, logType) ELSE @,
        !.appended = [@ EXCEPT ![c][logType] = Append(@, content)],
        !.watch = IF FileExists(made, c, logType) THEN @ \cup {<<c, logType>>} ELSE @,
        !.out = notifyLogUpdate(@, st.streams, c,
                   [timestamp |-> now, content |-> content,
                    source |-> "application", type |-> logType])]

LogStore ==
  [files |-> files, rotated |-> rotated, logs |-> dbLogs, reg |-> registry,
   appended |-> appended, streams |-> logStreams, out |-> streamOut,
   watch |-> watchPending]

\* what callers of writeLog pass as content
Contents == {<<Ch("x")>>, <<Ch("y")>>, <<SP>>, <<Ch("x"), NL, Ch("y")>>}

\* single-line contents
LineContents == {<<>>, <<Ch("x")>>}

\* LogService.writeLog called with any content
WriteLog ==
  /\ appends < MaxAppends
  /\ \E c \in RecIds, logType \in Categories, content \in Contents :
       \E st \in {writeLog(LogStore, c, content, logType, clock)} :
          /\ files' = st.files
          /\ dbLogs' = st.logs
          /\ appended' = st.appended
          /\ streamOut' = st.out
          /\ watchPending' = st.watch
          /\ logOp' = [op |-> "write", cid |-> c, arg |-> 0, result |-> 0]
  /\ appends' = appends + 1
  /\ UNCHANGED <<rotated, clock, rotations, logStreams>>
  /\ UNCHANGED <<registry, engine, syncVars, hmVars, orphanVars, restartVars, wsVars>>
  /\ UNCHANGED <<callVars, taskVars>>

\* LogService.writeLog called with single-line content
WriteLine ==
  /\ appends < MaxAppends
  /\ \E c \in RecIds, logType \in {"application", "error", "info"},
          content \in LineContents :
       \E st \in {writeLog(LogStore, c, content, logType, clock)} :
          /\ files' = st.files
          /\ dbLogs' = st.logs
          /\ appended' = st.appended
          /\ streamOut' = st.out
          /\ watchPending' = st.watch
          /\ logOp' = [op |-> "write", cid |-> c, arg |-> 0, result |-> 0]
  /\ appends' = appends + 1
  /\ UNCHANGED <<rotated, clock, rotations, logStreams>>
  /\ UNCHANGED <<registry, engine, syncVars, hmVars, orphanVars, restartVars, wsVars>>
  /\ UNCHANGED <<callVars, taskVars>>

\* time passes
Tick ==
  /\ clock < MaxClock
  /\ clock' = clock + 1
  /\ UNCHANGED <<files, rotated, appended, logOp, appends, rotations, logStreams, streamOut,
                 watchPending>>
  /\ UNCHANGED <<reconVars, wsVars>>
  /\ UNCHANGED <<callVars, taskVars>>

(***************************************************************************)
(* LogService.rotateLogs                                                   *)
(***************************************************************************)
RotationNote(cat) == <<Ch("Log file rotated: "), Ch(cat), Ch(".log")>>

\* fs.rename(filePath, rotatedPath): a file already at rotatedPath is replaced
rename(rot, c, cat, stamp, file) ==
  {f \in rot : ~(f.cid = c /\ f.cat = cat /\ f.stamp = stamp)}
     \cup {[cid |-> c, cat |-> cat, stamp |-> stamp,
            content |-> file.content, mtime |-> file.mtime]}

\* lines 309-326 with the truncation of line 319 done before the rename
RotateFileTruncatesFirst(st, c, cat, maxSize, now) ==
  IF FileSize(st.files[c][cat]) > maxSize
  THEN LET emptied == [st.files EXCEPT ![c][cat] = [content |-> <<>>, mtime |-> now]]
           moved == [st EXCEPT
                       !.rotated = rename(@, c, cat, now, emptied[c][cat]),
                       !.files = emptied,
                       !.appended = [@ EXCEPT ![c][cat] = <<>>]]
       IN writeLog(moved, c, RotationNote(cat), "info", now)
  ELSE st

\* lines 309-326: one file of the listing
RotateFile(st, c, cat, maxSize, now) ==
  IF FileSize(st.files[c][cat]) > maxSize
  THEN LET moved == [st EXCEPT
                       !.rotated = rename(@, c, cat, now, st.files[c][cat]),
                       !.files = [@ EXCEPT ![c][cat] = [content |-> <<>>, mtime |-> now]],
                       !.appended = [@ EXCEPT ![c][cat] = <<>>]]
       IN writeLog(moved, c, RotationNote(cat), "info", now)
  ELSE st

RECURSIVE RotateFiles(_, _, _, _, _, _)
RotateFiles(st, c, order, i, maxSize, now) ==
  IF i > Len(order) THEN st
  ELSE RotateFiles(RotateFile(st, c, order[i], maxSize, now), c, order, i + 1, maxSize, now)

\* fs.readdir lists the directory in an order the file system chooses
RECURSIVE Listings(_)
Listings(S) ==
  IF S = {} THEN {<<>>}
  ELSE UNION {{<<x>> \o l : l \in Listings(S \ {x})} : x \in S}

\* the maxSize arguments tried
SizeLimits == {0, 2}

rotateLogs ==
  /\ rotations < MaxRotations
  /\ \E c \in RecIds, maxSize \in SizeLimits :
       \E st \in {RotateFiles(LogStore, c, order, 1, maxSize, clock) :
                     order \in Listings({cat \in Categories : FileExists(files, c, cat)})} :
            /\ files' = st.files
            /\ rotated' = st.rotated
            /\ dbLogs' = st.logs
            /\ appended' = st.appended
            /\ streamOut' = st.out
            /\ watchPending' = st.watch
            /\ logOp' = [op |-> "rotate", cid |-> c, arg |-> maxSize, result |-> 0]
  /\ rotations' = rotations + 1
  /\ UNCHANGED <<clock, appends, logStreams>>
  /\ UNCHANGED <<registry, engine, syncVars, hmVars, orphanVars, restartVars, wsVars>>
  /\ UNCHANGED <<callVars, taskVars>>

(***************************************************************************)
(* LogService.cleanupOldLogs                                               *)
(***************************************************************************)
\* file.includes('.log.'): true of `${logType}.log.${stamp}`, false of
\* `${logType}.log` for the log types above
IncludesDotLogDot(kind) == kind = "rotated"

\* line 365 without the name test
CleansFileByAgeOnly(mtime, kind, cutoff) == mtime < cutoff

\* line 365 for one file of a directory
CleansFile(mtime, kind, cutoff) == mtime < cutoff /\ IncludesDotLogDot(kind)

\* lines 359-371: one container directory; returns what is left and the count
CleanDirectory(st, c, cutoff) ==
  LET goneRotated == {f \in st.rotated : f.cid = c /\ CleansFile(f.mtime, "rotated", cutoff)}
      goneActive == {cat \in Categories :
                       FileExists(st.files, c, cat) /\ CleansFile(st.files[c][cat].mtime, "active", cutoff)}
  IN [st EXCEPT
        !.rotated = @ \ goneRotated,
        !.files = [@ EXCEPT ![c] = [cat \in Categories |->
                      IF cat \in goneActive THEN NoFile ELSE st.files[c][cat]]],
        !.cleaned = @ + Cardinality(goneRotated) + Cardinality(goneActive)]

RECURSIVE CleanDirectories(_, _, _)
CleanDirectories(st, c, cutoff) ==
  IF c > MaxRecords THEN st
  ELSE CleanDirectories(
         IF DirExists(st.files, c) \/ \E f \in st.rotated : f.cid = c
         THEN CleanDirectory(st, c, cutoff) ELSE st,
         c + 1, cutoff)

\* the retentionDays arguments tried
RetentionChoices == {1, 2}

cleanupOldLogs ==
  /\ \E days \in RetentionChoices :
       \E st \in {CleanDirectories([files |-> files, rotated |-> rotated, cleaned |-> 0],
                                     1, clock - days)} :
          /\ files' = st.files
          /\ rotated' = st.rotated
          /\ logOp' = [op |-> "cleanup", cid |-> 0, arg |-> days, result |-> st.cleaned]
  /\ UNCHANGED <<clock, appended, appends, rotations, logStreams, streamOut, watchPending>>
  /\ UNCHANGED <<reconVars, wsVars>>
  /\ UNCHANGED <<callVars, taskVars>>

\* the registry the log service finds: record 1 exists, the others do not
LogRegistry ==
  [i \in RecIds |-> IF i = 1
                    THEN [name |-> "a", docker_id |-> NoDockerId, status |-> "stopped"]
                    ELSE NoRec]

InitReconIdle ==
  /\ registry = LogRegistry
  /\ engine = <<>>
  /\ dbLogs = [i \in RecIds |-> <<>>]
  /\ settings = [i \in RecIds |-> "none"]
  /\ InitSyncIdle
  /\ InitHealthIdle
  /\ InitOrphanIdle
  /\ InitRestartIdle

\* appends of any content and reads
InitTail == InitReconIdle /\ InitLogIdle /\ InitChannelIdle /\ InitCallIdle /\ InitTaskIdle
NextTail == WriteLog \/ Tick
SpecTail == InitTail /\ [][NextTail]_vars

\* appends of lines, rotation and retention
InitRotate == InitReconIdle /\ InitLogIdle /\ InitChannelIdle /\ InitCallIdle /\ InitTaskIdle
NextRotate == WriteLine \/ rotateLogs \/ cleanupOldLogs \/ Tick
SpecRotate == InitRotate /\ [][NextRotate]_vars

(***************************************************************************)
(* DockerService.restartContainer as an operation of its own, and the      *)
(* startup script it schedules                                             *)
(***************************************************************************)
\* restartContainer with a catch block that marks the record stopped
RestartOutcomeStopsOnFailure(id, ok) ==
  LET out == restartContainer(registry, dbLogs, engine, id, ok)
  IN [reg |-> IF out.threw /\ registry[id] # NoRec
              THEN updateStatus(out.reg, id, "stopped") ELSE out.reg,
      logs |-> out.logs, eng |-> out.eng, threw |-> out.threw,
      pending |-> Scheduled(pendingScripts, id, out.threw, restarts + 1, clock)]

\* lines 282-321: the call, with the timer it leaves behind
RestartOutcome(id, ok) ==
  LET out == restartContainer(registry, dbLogs, engine, id, ok)
  IN [reg |-> out.reg, logs |-> out.logs, eng |-> out.eng, threw |-> out.threw,
      pending |-> Scheduled(pendingScripts, id, out.threw, restarts + 1, clock)]

\* a caller invokes DockerService.restartContainer(id); ok tells whether the
\* engine's restart call succeeds
restartCall ==
  /\ restarts < MaxRestarts
  /\ \E id \in RecIds, ok \in BOOLEAN :
       \E out \in {RestartOutcome(id, ok)} :
         /\ registry' = out.reg
         /\ dbLogs' = out.logs
         /\ engine' = out.eng
         /\ pendingScripts' = out.pending
         /\ restartOut' = [id |-> id, ok |-> ok, threw |-> out.threw,
                           status |-> IF out.threw THEN "none" ELSE "running"]
  /\ restarts' = restarts + 1
  /\ UNCHANGED <<startupScript, scriptOut>>
  /\ UNCHANGED <<syncVars, hmVars, orphanVars, logVars, wsVars>>
  /\ UNCHANGED <<callVars, taskVars>>

ExecutingRow == LogRow("Executing script", "info")
ScriptCompletedRow == LogRow("Script completed", "info")
ScriptErrorsRow == LogRow("Script errors", "error")
ScriptFailedRow == LogRow("Script execution failed", "error")

\* how a run of executeScript can end for the record r
ScriptOutcomes(r, list) ==
  IF r = NoRec THEN {"not found"}
  ELSE IF r.docker_id = NoDockerId THEN {"no docker id"}
  ELSE IF EngineIndex(list, r.docker_id) = 0 THEN {"exec throws"}
  ELSE {"completed", "errors", "stream error", "exec throws"}

\* executeScript (lines 139-217): the rows it adds to the container's log
executeScript(logs, id, outcome) ==
  CASE outcome \in {"not found", "no docker id"} -> logs
    [] outcome = "exec throws" -> [logs EXCEPT ![id] = Append(@, ExecutingRow)]
    [] outcome = "completed" -> [logs EXCEPT ![id] = @ \o <<ExecutingRow, ScriptCompletedRow>>]
    [] outcome = "errors" ->
         [logs EXCEPT ![id] = @ \o <<ExecutingRow, ScriptCompletedRow, ScriptErrorsRow>>]
    [] outcome = "stream error" -> [logs EXCEPT ![id] = @ \o <<ExecutingRow, ScriptFailedRow>>]

\* lines 302-308: the timer fires and the startup script is executed; what
\* executeScript throws is caught and printed
startupScriptRuns ==
  /\ \E e \in pendingScripts :
       /\ clock >= e.due
       /\ \E outcome \in ScriptOutcomes(registry[e.id], engine) :
            /\ dbLogs' = executeScript(dbLogs, e.id, outcome)
            /\ scriptOut' = [id |-> e.id, at |-> e.at, outcome |-> outcome]
       /\ pendingScripts' = pendingScripts \ {e}
  /\ UNCHANGED <<registry, engine, startupScript, restarts, restartOut>>
  /\ UNCHANGED <<syncVars, hmVars, orphanVars, logVars, wsVars>>
  /\ UNCHANGED <<callVars, taskVars>>

\* some records carry a startup script
InitRestart ==
  /\ registry \in HealthRegistries
  /\ engine \in ReconEngineLists
  /\ dbLogs = [i \in RecIds |-> <<>>]
  /\ settings = [i \in RecIds |-> "none"]
  /\ InitSyncIdle
  /\ InitHealthIdle
  /\ InitOrphanIdle
  /\ startupScript \in {f \in [RecIds -> BOOLEAN] : \A i \in RecIds : registry[i] = NoRec => ~f[i]}
  /\ pendingScripts = {}
  /\ restarts = 0
  /\ restartOut = NoRestart
  /\ scriptOut = NoScript
  /\ InitLogIdle
  /\ InitChannelIdle
  /\ InitCallIdle /\ InitTaskIdle

NextRestart == restartCall \/ startupScriptRuns \/ Tick \/ EngineRemove

SpecRestart == InitRestart /\ [][NextRestart]_vars

(***************************************************************************)
(* LogService: the file watcher                                            *)
(***************************************************************************)
\* the 'change' handler of startLogWatching: the last entry of the changed
\* file is passed to notifyLogUpdate
logWatcher ==
  /\ \E ev \in watchPending :
       LET newLogs == readLogs(files, ev[1], ev[2], 10, -1, clock)
       IN /\ streamOut' = IF Len(newLogs) > 0
                          THEN notifyLogUpdate(streamOut, logStreams, ev[1], newLogs[Len(newLogs)])
                          ELSE streamOut
          /\ watchPending' = watchPending \ {ev}
  /\ UNCHANGED <<files, rotated, clock, appended, logOp, appends, rotations, logStreams>>
  /\ UNCHANGED <<reconVars, wsVars>>
  /\ UNCHANGED <<callVars, taskVars>>

(***************************************************************************)
(* WebSocketService                                                        *)
(***************************************************************************)
NoLog == [timestamp |-> -1, content |-> <<>>, source |-> "", type |-> ""]

\* a message as the client receives it; via tells what produced a log_entry
Msg(type, c, text, log, via) ==
  [type |-> type, container_id |-> c, text |-> text, log |-> log, via |-> via]

\* sendMessage: only an open socket is written to
sendMessage(in, w, m) ==
  IF conn[w] = "open" THEN [in EXCEPT ![w] = Append(@, m)] ELSE in

sendError(in, w, text) == sendMessage(in, w, Msg("error", 0, text, NoLog, ""))

RECURSIVE sendMessages(_, _, _)
sendMessages(in, w, ms) ==
  IF ms = <<>> THEN in ELSE sendMessages(sendMessage(in, w, Head(ms)), w, Tail(ms))

\* Array.from(this.clients.values()).find(c => c.ws === ws)
ClientOf(w) ==
  IF \E i \in 1..Len(clients) : clients[i].ws = w
  THEN clients[CHOOSE i \in 1..Len(clients) :
                 clients[i].ws = w /\ \A j \in 1..(i - 1) : clients[j].ws # w]
  ELSE [id |-> 0, ws |-> 0, userId |-> 0, role |-> ""]

\* this.wss.on('connection'): setupConnection
wsConnect ==
  /\ \E w \in ConnIds :
       /\ conn[w] = "none"
       /\ conn' = [conn EXCEPT ![w] = "open"]
       /\ inbox' = [inbox EXCEPT ![w] = Append(@, Msg("welcome", 0, "", NoLog, ""))]
  /\ UNCHANGED <<session, clients, containerStreams, subscribedContainers, wsLogService,
                 liveFor, wsMessages, wsIn, execStreams, replayPending, broadcasts, wsOp, lookupPending>>
  /\ UNCHANGED <<reconVars, logVars>>
  /\ UNCHANGED <<callVars, taskVars>>

\* LogService.initialize() resolves in WebSocketService.initialize
logServiceReady ==
  /\ ~wsLogService
  /\ wsLogService' = TRUE
  /\ UNCHANGED <<conn, session, clients, containerStreams, subscribedContainers, inbox,
                 liveFor, wsMessages, wsIn, execStreams, replayPending, broadcasts, wsOp, lookupPending>>
  /\ UNCHANGED <<reconVars, logVars>>
  /\ UNCHANGED <<callVars, taskVars>>

\* an authenticate whose token jwt.verify rejects is accepted
handleAuthenticationTrustsToken ==
  /\ wsMessages < MaxWsMessages
  /\ \E w \in ConnIds, token \in Tokens \cup {NoToken, BadToken} :
       /\ conn[w] = "open"
       /\ wsIn' = [ws |-> w, type |-> "authenticate", token |-> token, container_id |-> 0]
       /\ IF token = NoToken
          THEN /\ inbox' = sendError(inbox, w, "Token required for authentication")
               /\ UNCHANGED <<clients, session>>
          ELSE IF token = BadToken
          THEN /\ inbox' = sendError(inbox, w, "Authentication failed")
               /\ session' = [session EXCEPT ![w].authenticated = TRUE]
               /\ UNCHANGED clients
          ELSE LET clientId == wsMessages + 1
               IN /\ clients' = Append(clients, [id |-> clientId, ws |-> w,
                                                 userId |-> token.userId, role |-> token.role])
                  /\ session' = [session EXCEPT ![w] =
                                   [clientId |-> clientId, userId |-> token.userId,
                                    authenticated |-> TRUE]]
                  /\ inbox' = sendMessage(inbox, w, Msg("authenticated", 0, "", NoLog, ""))
  /\ wsMessages' = wsMessages + 1
  /\ UNCHANGED <<conn, containerStreams, subscribedContainers, wsLogService, liveFor,
                 execStreams, replayPending, broadcasts, wsOp, lookupPending>>
  /\ UNCHANGED <<reconVars, logVars>>
  /\ UNCHANGED <<callVars, taskVars>>
\* message {type: 'authenticate', token}
handleAuthentication ==
  /\ wsMessages < MaxWsMessages
  /\ \E w \in ConnIds, token \in Tokens \cup {NoToken, BadToken} :
       /\ conn[w] = "open"
       /\ wsIn' = [ws |-> w, type |-> "authenticate", token |-> token, container_id |-> 0]
       /\ IF token = NoToken
          THEN /\ inbox' = sendError(inbox, w, "Token required for authentication")
               /\ UNCHANGED <<clients, session>>
          ELSE IF token = BadToken
          THEN /\ inbox' = sendError(inbox, w, "Authentication failed")
               /\ UNCHANGED <<clients, session>>
          ELSE LET clientId == wsMessages + 1
               IN /\ clients' = Append(clients, [id |-> clientId, ws |-> w,
                                                 userId |-> token.userId, role |-> token.role])
                  /\ session' = [session EXCEPT ![w] =
                                   [clientId |-> clientId, userId |-> token.userId,
                                    authenticated |-> TRUE]]
                  /\ inbox' = sendMessage(inbox, w, Msg("authenticated", 0, "", NoLog, ""))
  /\ wsMessages' = wsMessages + 1
  /\ UNCHANGED <<conn, containerStreams, subscribedContainers, wsLogService, liveFor,
                 execStreams, replayPending, broadcasts, wsOp, lookupPending>>
  /\ UNCHANGED <<reconVars, logVars>>
  /\ UNCHANGED <<callVars, taskVars>>

\* the log_entry messages of the replay
Replay(c) ==
  LET recentLogs == readLogs(files, c, "application", ReplayTail, -1, clock)
  IN [i \in 1..Len(recentLogs) |-> Msg("log_entry", c, "", recentLogs[i], "replay")]

\* message {type: 'subscribe_logs', container_id}
handleLogSubscription ==
  /\ wsMessages < MaxWsMessages
  /\ \E w \in ConnIds, c \in RecIds :
       /\ conn[w] = "open"
       /\ wsIn' = [ws |-> w, type |-> "subscribe_logs", token |-> NoToken, container_id |-> c]
       /\ IF ~session[w].authenticated
          THEN /\ inbox' = sendError(inbox, w, "Authentication required")
               /\ UNCHANGED <<containerStreams, subscribedContainers>>
          ELSE IF registry[c] = NoRec
          THEN /\ inbox' = sendError(inbox, w, "Container not found")
               /\ UNCHANGED <<containerStreams, subscribedContainers>>
          ELSE IF ClientOf(w).ws = w /\ ClientOf(w).role # "admin"
                  /\ CreatedBy(c) # session[w].userId
          THEN /\ inbox' = sendError(inbox, w, "Access denied")
               /\ UNCHANGED <<containerStreams, subscribedContainers>>
          ELSE /\ containerStreams' = [containerStreams EXCEPT ![c] = @ \cup {w}]
               /\ subscribedContainers' = [subscribedContainers EXCEPT ![w] = @ \cup {c}]
               /\ inbox' = sendMessages(inbox, w,
                             <<Msg("log_subscription_success", c, "", NoLog, "")>>
                               \o (IF wsLogService THEN Replay(c) ELSE <<>>))
  /\ wsMessages' = wsMessages + 1
  /\ UNCHANGED <<conn, session, clients, wsLogService, liveFor, execStreams, replayPending,
                 broadcasts, wsOp, lookupPending>>
  /\ UNCHANGED <<reconVars, logVars>>
  /\ UNCHANGED <<callVars, taskVars>>

\* message {type: 'unsubscribe_logs', container_id}
handleLogUnsubscription ==
  /\ wsMessages < MaxWsMessages
  /\ \E w \in ConnIds, c \in RecIds :
       /\ conn[w] = "open"
       /\ wsIn' = [ws |-> w, type |-> "unsubscribe_logs", token |-> NoToken, container_id |-> c]
       /\ IF ~session[w].authenticated
          THEN UNCHANGED <<inbox, containerStreams, subscribedContainers, liveFor>>
          ELSE /\ containerStreams' = [containerStreams EXCEPT ![c] = @ \ {w}]
               /\ subscribedContainers' = [subscribedContainers EXCEPT ![w] = @ \ {c}]
               /\ liveFor' = [liveFor EXCEPT ![w] = {p \in @ : p[1] # c}]
               /\ inbox' = sendMessage(inbox, w,
                             Msg("log_unsubscription_success", c, "", NoLog, ""))
  /\ wsMessages' = wsMessages + 1
  /\ UNCHANGED <<conn, session, clients, wsLogService, execStreams, replayPending, broadcasts,
                 wsOp, lookupPending>>
  /\ UNCHANGED <<reconVars, logVars>>
  /\ UNCHANGED <<callVars, taskVars>>

\* ws.on('close')
wsClose ==
  /\ \E w \in ConnIds :
       /\ conn[w] = "open"
       /\ conn' = [conn EXCEPT ![w] = "closed"]
       /\ clients' = SelectSeq(clients, LAMBDA cl : cl.id # session[w].clientId)
       /\ containerStreams' = [c \in RecIds |->
                                 IF c \in subscribedContainers[w]
                                 THEN containerStreams[c] \ {w} ELSE containerStreams[c]]
       /\ liveFor' = [liveFor EXCEPT ![w] = {}]
  /\ UNCHANGED <<session, subscribedContainers, inbox, wsLogService, wsMessages, wsIn,
                 execStreams, replayPending, broadcasts, wsOp, lookupPending>>
  /\ UNCHANGED <<reconVars, logVars>>
  /\ UNCHANGED <<callVars, taskVars>>

\* the content of the k-th entry written
EntryContent(k) == <<Ch(ToString(k))>>

\* LogService.writeLog called while clients are connected; every connection
\* in the container's subscriber set is owed the entry from now on
WriteEntry ==
  /\ appends < MaxAppends
  /\ \E c \in RecIds, logType \in {"application", "error"} :
       \E st \in {writeLog(LogStore, c, EntryContent(appends + 1), logType, clock)} :
          /\ files' = st.files
          /\ dbLogs' = st.logs
          /\ appended' = st.appended
          /\ streamOut' = st.out
          /\ watchPending' = st.watch
          /\ logOp' = [op |-> "write", cid |-> c, arg |-> 0, result |-> 0]
          /\ liveFor' = [w \in ConnIds |->
                           IF w \in containerStreams[c] /\ conn[w] = "open"
                           THEN liveFor[w] \cup {<<c, appends + 1>>}
                           ELSE liveFor[w]]
  /\ appends' = appends + 1
  /\ UNCHANGED <<rotated, clock, rotations, logStreams>>
  /\ UNCHANGED <<registry, engine, syncVars, hmVars, orphanVars, restartVars>>
  /\ UNCHANGED <<conn, session, clients, containerStreams, subscribedContainers, inbox,
                 wsLogService, wsMessages, wsIn, execStreams, replayPending, broadcasts, wsOp, lookupPending>>
  /\ UNCHANGED <<callVars, taskVars>>

InitChannel == InitReconIdle /\ InitLogIdle /\ InitChannelIdle /\ InitCallIdle /\ InitTaskIdle

NextChannel ==
  \/ wsConnect
  \/ logServiceReady
  \/ handleAuthentication
  \/ handleLogSubscription
  \/ handleLogUnsubscription
  \/ wsClose
  \/ WriteEntry
  \/ logWatcher

SpecChannel == InitChannel /\ [][NextChannel]_vars

\* what the server does on its own is not postponed forever
FairSpecChannel ==
  SpecChannel /\ WF_vars(logWatcher) /\ WF_vars(logServiceReady)

(***************************************************************************)
(* WebSocketService: commands and status queries                           *)
(***************************************************************************)
CommandRow == LogRow("Command executed via WebSocket", "info")

\* the ownership check of lines 179-184, 261-265 and 339-343
AccessDenied(w, c) ==
  /\ ClientOf(w).ws = w
  /\ ClientOf(w).role # "admin"
  /\ CreatedBy(c) # session[w].userId

\* message {type: 'execute_command', container_id, command}; ok tells whether
\* the engine starts the exec
handleCommandExecution ==
  /\ wsMessages < MaxWsMessages
  /\ \E w \in ConnIds, c \in RecIds, ok \in BOOLEAN :
       /\ conn[w] = "open"
       /\ wsIn' = [ws |-> w, type |-> "execute_command", token |-> NoToken, container_id |-> c]
       /\ IF ~session[w].authenticated
          THEN /\ inbox' = sendError(inbox, w, "Authentication required")
               /\ UNCHANGED <<execStreams, dbLogs>>
          ELSE IF registry[c] = NoRec
          THEN /\ inbox' = sendError(inbox, w, "Container not found")
               /\ UNCHANGED <<execStreams, dbLogs>>
          ELSE IF AccessDenied(w, c)
          THEN /\ inbox' = sendError(inbox, w, "Access denied")
               /\ UNCHANGED <<execStreams, dbLogs>>
          ELSE IF registry[c].docker_id = NoDockerId
          THEN /\ inbox' = sendError(inbox, w, "Container has no Docker ID")
               /\ UNCHANGED <<execStreams, dbLogs>>
          ELSE IF ~ok \/ EngineIndex(engine, registry[c].docker_id) = 0
          THEN /\ inbox' = sendError(inbox, w, "Failed to execute command")
               /\ UNCHANGED <<execStreams, dbLogs>>
          ELSE /\ execStreams' = execStreams \cup {[ws |-> w, container_id |-> c,
                                                    n |-> wsMessages + 1, chunks |-> 0]}
               /\ inbox' = sendMessage(inbox, w, Msg("command_started", c, "", NoLog,
                                                     ToString(wsMessages + 1)))
               /\ dbLogs' = addLog(dbLogs, c, CommandRow.content, CommandRow.type)
  /\ wsMessages' = wsMessages + 1
  /\ UNCHANGED <<conn, session, clients, containerStreams, subscribedContainers, wsLogService,
                 liveFor, replayPending, broadcasts, wsOp, lookupPending>>
  /\ UNCHANGED <<registry, engine, syncVars, hmVars, orphanVars, restartVars, logVars>>
  /\ UNCHANGED <<callVars, taskVars>>

\* stream.on('data') of a command; via names the invocation the event belongs to
commandStreamData ==
  /\ \E s \in execStreams :
       /\ s.chunks < MaxChunks
       /\ execStreams' = (execStreams \ {s}) \cup {[s EXCEPT !.chunks = @ + 1]}
       /\ inbox' = sendMessage(inbox, s.ws,
                                Msg("command_output", s.container_id, "", NoLog, ToString(s.n)))
  /\ UNCHANGED <<conn, session, clients, containerStreams, subscribedContainers, wsLogService,
                 liveFor, wsMessages, wsIn, replayPending, broadcasts, wsOp, lookupPending>>
  /\ UNCHANGED <<reconVars, logVars>>
  /\ UNCHANGED <<callVars, taskVars>>

\* the end handler goes on listening: the stream stays among the live ones
commandStreamEndKeepsStream ==
  /\ \E s \in execStreams :
       /\ execStreams' = execStreams
       /\ inbox' = sendMessage(inbox, s.ws,
                                Msg("command_completed", s.container_id, "", NoLog, ToString(s.n)))
  /\ UNCHANGED <<conn, session, clients, containerStreams, subscribedContainers, wsLogService,
                 liveFor, wsMessages, wsIn, replayPending, broadcasts, wsOp, lookupPending>>
  /\ UNCHANGED <<reconVars, logVars>>
  /\ UNCHANGED <<callVars, taskVars>>

\* stream.on('end') of a command: the stream emits nothing after it
commandStreamEnd ==
  /\ \E s \in execStreams :
       /\ execStreams' = execStreams \ {s}
       /\ inbox' = sendMessage(inbox, s.ws,
                                Msg("command_completed", s.container_id, "", NoLog, ToString(s.n)))
  /\ UNCHANGED <<conn, session, clients, containerStreams, subscribedContainers, wsLogService,
                 liveFor, wsMessages, wsIn, replayPending, broadcasts, wsOp, lookupPending>>
  /\ UNCHANGED <<reconVars, logVars>>
  /\ UNCHANGED <<callVars, taskVars>>

\* stream.on('error') of a command: the stream is destroyed
commandStreamError ==
  /\ \E s \in execStreams :
       /\ execStreams' = execStreams \ {s}
       /\ inbox' = sendMessage(inbox, s.ws,
                                Msg("command_error", s.container_id, "", NoLog, ToString(s.n)))
  /\ UNCHANGED <<conn, session, clients, containerStreams, subscribedContainers, wsLogService,
                 liveFor, wsMessages, wsIn, replayPending, broadcasts, wsOp, lookupPending>>
  /\ UNCHANGED <<reconVars, logVars>>
  /\ UNCHANGED <<callVars, taskVars>>

\* docker_status of the reply: null without docker_id, not_found when the
\* inspect throws
DockerStatus(r, list) ==
  IF r.docker_id = NoDockerId THEN "null"
  ELSE IF EngineIndex(list, r.docker_id) = 0 THEN "not_found"
  ELSE list[EngineIndex(list, r.docker_id)].status

\* message {type: 'get_container_status', container_id}
handleContainerStatus ==
  /\ wsMessages < MaxWsMessages
  /\ \E w \in ConnIds, c \in RecIds :
       /\ conn[w] = "open"
       /\ wsIn' = [ws |-> w, type |-> "get_container_status", token |-> NoToken,
                   container_id |-> c]
       /\ inbox' = IF ~session[w].authenticated
                   THEN sendError(inbox, w, "Authentication required")
                   ELSE IF registry[c] = NoRec
                   THEN sendError(inbox, w, "Container not found")
                   ELSE IF AccessDenied(w, c)
                   THEN sendError(inbox, w, "Access denied")
                   ELSE sendMessage(inbox, w,
                          Msg("container_status", c, registry[c].status, NoLog,
                              DockerStatus(registry[c], engine)))
  /\ wsMessages' = wsMessages + 1
  /\ UNCHANGED <<conn, session, clients, containerStreams, subscribedContainers, wsLogService,
                 liveFor, execStreams, replayPending, broadcasts, wsOp, lookupPending>>
  /\ UNCHANGED <<reconVars, logVars>>
  /\ UNCHANGED <<callVars, taskVars>>

\* record 1 has a container in the engine, the other records do not exist
ControlRegistry ==
  [i \in RecIds |-> IF i = 1
                    THEN [name |-> "a", docker_id |-> 1, status |-> "running"]
                    ELSE NoRec]

InitControl ==
  /\ registry = ControlRegistry
  /\ engine = <<[dockerId |-> 1, name |-> "a", status |-> "running", labelled |-> TRUE]>>
  /\ dbLogs = [i \in RecIds |-> <<>>]
  /\ settings = [i \in RecIds |-> "none"]
  /\ InitSyncIdle
  /\ InitHealthIdle
  /\ InitOrphanIdle
  /\ InitRestartIdle
  /\ InitLogIdle
  /\ InitChannelIdle
  /\ InitCallIdle /\ InitTaskIdle

NextControl ==
  \/ wsConnect
  \/ handleAuthentication
  \/ handleLogSubscription
  \/ handleLogUnsubscription
  \/ handleCommandExecution
  \/ commandStreamData
  \/ commandStreamEnd
  \/ commandStreamError
  \/ handleContainerStatus
  \/ wsClose

SpecControl == InitControl /\ [][NextControl]_vars

(***************************************************************************)
(* WebSocketService: the subscription around its await, and the broadcast  *)
(***************************************************************************)
\* handleLogSubscription up to `await this.logService.readLogs`: the checks,
\* subscribeToContainerLogs, the acknowledgment; the replay is left pending
handleLogSubscriptionAwaits ==
  /\ wsMessages < MaxWsMessages
  /\ \E w \in ConnIds, c \in RecIds :
       /\ conn[w] = "open"
       /\ wsIn' = [ws |-> w, type |-> "subscribe_logs", token |-> NoToken, container_id |-> c]
       /\ IF ~session[w].authenticated
          THEN /\ inbox' = sendError(inbox, w, "Authentication required")
               /\ UNCHANGED <<containerStreams, subscribedContainers, replayPending>>
          ELSE IF registry[c] = NoRec
          THEN /\ inbox' = sendError(inbox, w, "Container not found")
               /\ UNCHANGED <<containerStreams, subscribedContainers, replayPending>>
          ELSE IF AccessDenied(w, c)
          THEN /\ inbox' = sendError(inbox, w, "Access denied")
               /\ UNCHANGED <<containerStreams, subscribedContainers, replayPending>>
          ELSE /\ containerStreams' = [containerStreams EXCEPT ![c] = @ \cup {w}]
               /\ subscribedContainers' = [subscribedContainers EXCEPT ![w] = @ \cup {c}]
               /\ inbox' = sendMessage(inbox, w, Msg("log_subscription_success", c, "", NoLog, ""))
               /\ replayPending' = IF wsLogService
                                   THEN replayPending \cup {[ws |-> w, container_id |-> c,
                                                             n |-> wsMessages + 1]}
                                   ELSE replayPending
  /\ wsMessages' = wsMessages + 1
  /\ UNCHANGED <<conn, session, clients, wsLogService, liveFor, execStreams, broadcasts, wsOp,
                 lookupPending>>
  /\ UNCHANGED <<reconVars, logVars>>
  /\ UNCHANGED <<callVars, taskVars>>

\* readLogs resolves and recentLogs.forEach sends the replay
handleLogSubscriptionResumes ==
  /\ \E p \in replayPending :
       /\ inbox' = sendMessages(inbox, p.ws, Replay(p.container_id))
       /\ replayPending' = replayPending \ {p}
  /\ UNCHANGED <<conn, session, clients, containerStreams, subscribedContainers, wsLogService,
                 liveFor, wsMessages, wsIn, execStreams, broadcasts, wsOp, lookupPending>>
  /\ UNCHANGED <<reconVars, logVars>>
  /\ UNCHANGED <<callVars, taskVars>>

\* no socket of a subscriber set is told from an open one
AllSockets(ws) == ws

\* the open sockets of a subscriber set
OpenSockets(ws) == {w \in ws : conn[w] = "open"}

RECURSIVE Broadcast(_, _, _)
\* subscribers.forEach of broadcastLogEntry
Broadcast(in, ws, m) ==
  IF ws = {} THEN in
  ELSE LET w == CHOOSE x \in ws : TRUE
       IN Broadcast(sendMessage(in, w, m), ws \ {w}, m)

\* broadcastLogEntry(containerId, logEntry), called with an entry of the
\* container's log
broadcastLogEntry ==
  /\ broadcasts < MaxBroadcasts
  /\ \E c \in RecIds, logType \in {"application", "error"} :
       \E entries \in {readLogs(files, c, logType, ReplayTail, -1, clock)} :
         \E i \in 1..Len(entries) :
           /\ inbox' = Broadcast(inbox, OpenSockets(containerStreams[c]),
                                 Msg("log_entry", c, "", entries[i], "broadcast"))
           /\ containerStreams' = [containerStreams EXCEPT ![c] = OpenSockets(@)]
           /\ wsOp' = [op |-> "broadcastLogEntry", container_id |-> c]
  /\ broadcasts' = broadcasts + 1
  /\ UNCHANGED <<conn, session, clients, subscribedContainers, wsLogService, liveFor,
                 wsMessages, wsIn, execStreams, replayPending, lookupPending>>
  /\ UNCHANGED <<reconVars, logVars>>
  /\ UNCHANGED <<callVars, taskVars>>

NextReplay ==
  \/ wsConnect
  \/ logServiceReady
  \/ handleAuthentication
  \/ handleLogSubscriptionAwaits
  \/ handleLogSubscriptionResumes
  \/ wsClose
  \/ WriteEntry
  \/ broadcastLogEntry

SpecReplay == InitChannel /\ [][NextReplay]_vars

(***************************************************************************)
(* WebSocketService: the subscription around its registry lookup, the      *)
(* status broadcast and the sweep                                          *)
(***************************************************************************)
\* the ownership check with the userId the handler was called with
AccessDeniedFor(w, c, userId) ==
  /\ ClientOf(w).ws = w
  /\ ClientOf(w).role # "admin"
  /\ CreatedBy(c) # userId

\* the message handler up to `await Container.findById(container_id)`
handleLogSubscriptionBegins ==
  /\ wsMessages < MaxWsMessages
  /\ \E w \in ConnIds, c \in RecIds :
       /\ conn[w] = "open"
       /\ wsIn' = [ws |-> w, type |-> "subscribe_logs", token |-> NoToken, container_id |-> c]
       /\ IF ~session[w].authenticated
          THEN /\ inbox' = sendError(inbox, w, "Authentication required")
               /\ UNCHANGED lookupPending
          ELSE /\ lookupPending' = lookupPending \cup
                                     {[ws |-> w, container_id |-> c, n |-> wsMessages + 1,
                                       userId |-> session[w].userId]}
               /\ UNCHANGED inbox
  /\ wsMessages' = wsMessages + 1
  /\ UNCHANGED <<conn, session, clients, containerStreams, subscribedContainers, wsLogService,
                 liveFor, execStreams, replayPending, broadcasts, wsOp>>
  /\ UNCHANGED <<reconVars, logVars>>
  /\ UNCHANGED <<callVars, taskVars>>

\* subscribeToContainerLogs
subscribeToContainerLogs(streams, c, w) == [streams EXCEPT ![c] = @ \cup {w}]

\* findById resolves: the checks, subscribeToContainerLogs, the acknowledgment
handleLogSubscriptionFound ==
  /\ \E p \in lookupPending :
       LET w == p.ws
           c == p.container_id
       IN /\ lookupPending' = lookupPending \ {p}
          /\ IF registry[c] = NoRec
             THEN /\ inbox' = sendError(inbox, w, "Container not found")
                  /\ UNCHANGED <<containerStreams, subscribedContainers, replayPending>>
             ELSE IF AccessDeniedFor(w, c, p.userId)
             THEN /\ inbox' = sendError(inbox, w, "Access denied")
                  /\ UNCHANGED <<containerStreams, subscribedContainers, replayPending>>
             ELSE /\ containerStreams' = subscribeToContainerLogs(containerStreams, c, w)
                  /\ subscribedContainers' = [subscribedContainers EXCEPT ![w] = @ \cup {c}]
                  /\ inbox' = sendMessage(inbox, w,
                                          Msg("log_subscription_success", c, "", NoLog, ""))
                  /\ replayPending' = IF wsLogService
                                      THEN replayPending \cup {[ws |-> w, container_id |-> c,
                                                                n |-> p.n]}
                                      ELSE replayPending
  /\ UNCHANGED <<conn, session, clients, wsLogService, liveFor, wsMessages, wsIn, execStreams,
                 broadcasts, wsOp>>
  /\ UNCHANGED <<reconVars, logVars>>
  /\ UNCHANGED <<callVars, taskVars>>

RECURSIVE StatusToClients(_, _, _)
\* this.clients.forEach of broadcastContainerStatus
StatusToClients(in, cls, m) ==
  IF cls = <<>> THEN in
  ELSE StatusToClients(sendMessage(in, Head(cls).ws, m), Tail(cls), m)

\* broadcastContainerStatus(containerId, status)
broadcastContainerStatus ==
  /\ broadcasts < MaxBroadcasts
  /\ \E c \in RecIds :
       /\ inbox' = StatusToClients(inbox, clients,
                                   Msg("container_status_change", c, "running", NoLog, ""))
       /\ wsOp' = [op |-> "broadcastContainerStatus", container_id |-> c]
  /\ broadcasts' = broadcasts + 1
  /\ UNCHANGED <<conn, session, clients, containerStreams, subscribedContainers, wsLogService,
                 liveFor, wsMessages, wsIn, execStreams, replayPending, lookupPending>>
  /\ UNCHANGED <<reconVars, logVars>>
  /\ UNCHANGED <<callVars, taskVars>>

\* the sockets of the client entries that are not open
ClosedClientSockets(cls) ==
  {cls[i].ws : i \in {j \in 1..Len(cls) : conn[cls[j].ws] # "open"}}

\* the client table after the sweep
SweptClients == SelectSeq(clients, LAMBDA cl : conn[cl.ws] = "open")

\* the subscriber sets after the sweep
SweptStreams == [c \in RecIds |-> containerStreams[c] \ ClosedClientSockets(clients)]

\* cleanup(): every client entry whose socket is not open is deleted and its
\* socket is taken out of every subscriber set
cleanup ==
  /\ clients' = SweptClients
  /\ containerStreams' = SweptStreams
  /\ wsOp' = [op |-> "cleanup", container_id |-> 0]
  /\ UNCHANGED <<conn, session, subscribedContainers, inbox, wsLogService, liveFor, wsMessages,
                 wsIn, execStreams, replayPending, broadcasts, lookupPending>>
  /\ UNCHANGED <<reconVars, logVars>>
  /\ UNCHANGED <<callVars, taskVars>>

\* the log store after writeLog(1, '1', 'application') on the empty store
StoreWithEntry ==
  writeLog([files |-> [c \in RecIds |-> [cat \in Categories |-> NoFile]],
            rotated |-> {}, logs |-> [i \in RecIds |-> <<>>], reg |-> LogRegistry,
            appended |-> [c \in RecIds |-> [cat \in Categories |-> <<>>]],
            streams |-> [c \in RecIds |-> {}], out |-> [s \in StreamIds |-> <<>>],
            watch |-> {}],
           1, EntryContent(1), "application", 0)

\* container 1 has one entry in its application log and no client has connected
InitSweep ==
  /\ registry = LogRegistry
  /\ engine = <<>>
  /\ dbLogs = StoreWithEntry.logs
  /\ settings = [i \in RecIds |-> "none"]
  /\ InitSyncIdle
  /\ InitHealthIdle
  /\ InitOrphanIdle
  /\ InitRestartIdle
  /\ files = StoreWithEntry.files
  /\ rotated = {}
  /\ clock = 0
  /\ appended = StoreWithEntry.appended
  /\ logOp = [op |-> "write", cid |-> 1, arg |-> 0, result |-> 0]
  /\ appends = 1
  /\ rotations = 0
  /\ logStreams = [c \in RecIds |-> {}]
  /\ streamOut = StoreWithEntry.out
  /\ watchPending = StoreWithEntry.watch
  /\ InitChannelIdle
  /\ InitCallIdle /\ InitTaskIdle

NextSweep ==
  \/ wsConnect
  \/ handleAuthentication
  \/ handleLogSubscriptionBegins
  \/ handleLogSubscriptionFound
  \/ wsClose
  \/ broadcastLogEntry
  \/ broadcastContainerStatus
  \/ cleanup

SpecSweep == InitSweep /\ [][NextSweep]_vars

(***************************************************************************)
(* DockerManager: the CPU percent of getContainerStats                     *)
(***************************************************************************)
\* JavaScript values: a number, undefined, NaN
Num(n) == <<"number", n>>
Undefined == <<"undefined", 0>>
NaN == <<"NaN", 0>>

\* a - b
JsMinus(a, b) == IF a[1] = "number" /\ b[1] = "number" THEN Num(a[2] - b[2]) ELSE NaN

\* a > 0
JsPositive(a) == a[1] = "number" /\ a[2] > 0

\* a || 1
JsOrOne(a) == IF a[1] = "number" /\ a[2] # 0 THEN a ELSE Num(1)

\* the quotient (cpuDelta / systemDelta) * cpuCount * 100 is kept as a fraction
Zero == [num |-> 0, den |-> 1]

\* the percent without the test of cpuDelta
calculateCpuPercentOfAnyDelta(stats) ==
  LET cpuDelta == JsMinus(stats.total_usage, stats.pre_total_usage)
      systemDelta == JsMinus(stats.system_cpu_usage, stats.pre_system_cpu_usage)
      cpuCount == JsOrOne(stats.online_cpus)
  IN IF JsPositive(systemDelta) /\ cpuDelta[1] = "number"
     THEN [num |-> cpuDelta[2] * cpuCount[2] * 100, den |-> systemDelta[2]]
     ELSE Zero

\* calculateCpuPercent(stats)
calculateCpuPercent(stats) ==
  LET cpuDelta == JsMinus(stats.total_usage, stats.pre_total_usage)
      systemDelta == JsMinus(stats.system_cpu_usage, stats.pre_system_cpu_usage)
      cpuCount == JsOrOne(stats.online_cpus)
  IN IF JsPositive(systemDelta) /\ JsPositive(cpuDelta)
     THEN [num |-> cpuDelta[2] * cpuCount[2] * 100, den |-> systemDelta[2]]
     ELSE Zero

\* the counters of a stats sample; precpu_stats may lack them
Counters == {Undefined} \cup {Num(n) : n \in 0..MaxCounter}
CpuCounts == {Undefined} \cup {Num(n) : n \in 0..MaxCpus}
StatsSamples ==
  [total_usage : Counters, pre_total_usage : Counters, system_cpu_usage : Counters,
   pre_system_cpu_usage : Counters, online_cpus : CpuCounts]

\* getContainerStats computes the cpu field of its result
getContainerStats ==
  /\ callIn.fn = "calculateCpuPercent"
  /\ callOut = NoCall
  /\ callOut' = [fn |-> "calculateCpuPercent", value |-> calculateCpuPercent(callIn.stats)]
  /\ UNCHANGED <<reconVars, logVars, wsVars, callIn, taskVars>>

InitStats ==
  /\ InitReconIdle
  /\ InitLogIdle
  /\ InitChannelIdle
  /\ callIn \in {[fn |-> "calculateCpuPercent", stats |-> st] : st \in StatsSamples}
  /\ callOut = NoCall
  /\ InitTaskIdle

NextStats == getContainerStats

SpecStats == InitStats /\ [][NextStats]_vars

(***************************************************************************)
(* PUT /api/containers/:id                                                 *)
(***************************************************************************)
\* a field the request body does not carry
Absent == "undefined"
NoDockerIdField == -1

\* the fields of a request body that Container.update copies to the row
UpdateBodies ==
  [name : {Absent, "b"}, status : {Absent, "running", "removed"},
   docker_id : {NoDockerIdField} \cup EngineIds]

\* no field of the body is among the allowed ones
NoValidFields(body) ==
  body.name = Absent /\ body.status = Absent /\ body.docker_id = NoDockerIdField

\* the UNIQUE constraint on docker_id rejects the UPDATE
UpdateRejected(reg, id, body) ==
  /\ body.docker_id # NoDockerIdField
  /\ \E j \in Present(reg) \ {id} : reg[j].docker_id = body.docker_id

\* the row after UPDATE containers SET <the allowed fields of the body>
UpdatedRow(r, body) ==
  [name |-> IF body.name = Absent THEN r.name ELSE body.name,
   status |-> IF body.status = Absent THEN r.status ELSE body.status,
   docker_id |-> IF body.docker_id = NoDockerIdField THEN r.docker_id ELSE body.docker_id]

ConfigUpdatedRow == LogRow("Container configuration updated", "info")

\* router.put('/:id'): the lookup, the ownership check, Container.update, addLog
putContainer ==
  /\ callOut = NoCall
  /\ \E id \in RecIds, user \in Tokens, body \in UpdateBodies :
       /\ callIn' = [fn |-> "put", id |-> id, user |-> user, body |-> body]
       /\ IF registry[id] = NoRec
          THEN /\ callOut' = [fn |-> "put", status |-> 404]
               /\ UNCHANGED <<registry, dbLogs>>
          ELSE IF user.role # "admin" /\ CreatedBy(id) # user.userId
          THEN /\ callOut' = [fn |-> "put", status |-> 403]
               /\ UNCHANGED <<registry, dbLogs>>
          ELSE IF NoValidFields(body) \/ UpdateRejected(registry, id, body)
          THEN /\ callOut' = [fn |-> "put", status |-> 500]
               /\ UNCHANGED <<registry, dbLogs>>
          ELSE /\ callOut' = [fn |-> "put", status |-> 200]
               /\ registry' = [registry EXCEPT ![id] = UpdatedRow(@, body)]
               /\ dbLogs' = addLog(dbLogs, id, ConfigUpdatedRow.content, ConfigUpdatedRow.type)
  /\ UNCHANGED <<engine, syncVars, hmVars, orphanVars, restartVars, logVars, wsVars, taskVars>>

InitUpdate ==
  /\ registry \in Registries
  /\ engine = <<>>
  /\ dbLogs = [i \in RecIds |-> <<>>]
  /\ settings = [i \in RecIds |-> "none"]
  /\ InitSyncIdle
  /\ InitHealthIdle
  /\ InitOrphanIdle
  /\ InitRestartIdle
  /\ InitLogIdle
  /\ InitChannelIdle
  /\ InitCallIdle /\ InitTaskIdle

NextUpdate == putContainer

SpecUpdate == InitUpdate /\ [][NextUpdate]_vars

(***************************************************************************)
(* LogService: clearing a file, and the registered streams                 *)
(***************************************************************************)
\* the row clearLogs adds to container_logs: `${logType} logs cleared`
ClearedContent(logType) == <<Ch(logType), SP, Ch("logs"), SP, Ch("cleared")>>

\* fs.writeFile(logFilePath, ''): the directory has to exist
truncateFile(fs, c, logType, now) ==
  [fs EXCEPT ![c][logType] = [content |-> <<>>, mtime |-> now]]

\* clearLogs(containerId, logType); one call is followed
clearLogs ==
  /\ callOut = NoCall
  /\ \E c \in RecIds, logType \in Categories :
       /\ callIn' = [fn |-> "clearLogs", cid |-> c, logType |-> logType]
       /\ IF ~DirExists(files, c)
          THEN /\ callOut' = [fn |-> "clearLogs", threw |-> TRUE]
               /\ UNCHANGED <<files, dbLogs, watchPending>>
          ELSE /\ callOut' = [fn |-> "clearLogs", threw |-> FALSE]
               /\ files' = truncateFile(files, c, logType, clock)
               /\ watchPending' = IF FileExists(files, c, logType)
                                  THEN watchPending \cup {<<c, logType>>}
                                  ELSE watchPending
               /\ dbLogs' = IF registry[c] # NoRec
                            THEN addLog(dbLogs, c, ClearedContent(logType), "info")
                            ELSE dbLogs
       /\ logOp' = [op |-> "clear", cid |-> c, arg |-> 0, result |-> 0]
  /\ UNCHANGED <<rotated, clock, appended, appends, rotations, logStreams, streamOut>>
  /\ UNCHANGED <<registry, engine, syncVars, hmVars, orphanVars, restartVars, wsVars, taskVars>>

\* addLogStream(containerId, stream)
addLogStream ==
  /\ \E c \in RecIds, s \in StreamIds :
       /\ s \notin logStreams[c]
       /\ logStreams' = [logStreams EXCEPT ![c] = @ \cup {s}]
  /\ UNCHANGED <<files, rotated, clock, appended, logOp, appends, rotations, streamOut,
                 watchPending>>
  /\ UNCHANGED <<reconVars, wsVars, callVars, taskVars>>

NextStreams ==
  \/ addLogStream
  \/ WriteEntry
  \/ clearLogs
  \/ logWatcher

SpecStreams == InitChannel /\ [][NextStreams]_vars

(***************************************************************************)
(* POST /api/containers/:id/stop, next to the Health Monitor               *)
(***************************************************************************)
MaxStops == 1

StoppedRow == LogRow("Container stopped", "info")
StopFailedRow == LogRow("Failed to stop container", "error")

\* lines 279-305: the record is found and carries a docker_id, and
\* dockerManager.stopContainer is awaited; the engine stops a running
\* container and refuses otherwise, which the catch of 313-316 logs
stopContainerRoute ==
  /\ stops < MaxStops
  /\ stopPc = 0
  /\ stops' = stops + 1
  /\ \E id \in Present(registry) :
       LET k == EngineIndex(engine, registry[id].docker_id)
       IN /\ registry[id].docker_id # NoDockerId
          /\ IF k # 0 /\ engine[k].status = "running"
             THEN /\ engine' = [engine EXCEPT ![k].status = "exited"]
                  /\ stopPc' = id
                  /\ UNCHANGED dbLogs
             ELSE /\ dbLogs' = [dbLogs EXCEPT ![id] = Append(@, StopFailedRow)]
                  /\ UNCHANGED <<engine, stopPc>>
  /\ UNCHANGED <<registry, syncVars, hmVars, orphanVars, restartVars>>
  /\ UNCHANGED <<logVars, wsVars, callVars, running, writes, rotPc>>

\* lines 306-312: the stop has returned; the record is marked stopped and
\* the action logged
stopContainerRouteCompletes ==
  /\ stopPc # 0
  /\ registry' = updateStatus(registry, stopPc, "stopped")
  /\ dbLogs' = [dbLogs EXCEPT ![stopPc] = Append(@, StoppedRow)]
  /\ stopPc' = 0
  /\ UNCHANGED <<engine, syncVars, hmVars, orphanVars, restartVars>>
  /\ UNCHANGED <<logVars, wsVars, callVars, running, stops, writes, rotPc>>

NextStop ==
  \/ stopContainerRoute
  \/ stopContainerRouteCompletes
  \/ monitorBegin
  \/ monitorSkip
  \/ monitorInspectFails
  \/ monitorHealthy
  \/ monitorMarkStopped
  \/ monitorRestart
  \/ monitorEnd
  \/ ContainerExits

SpecStop == InitRevive /\ [][NextStop]_vars

(***************************************************************************)
(* LogService.writeLog and rotateLogs await by await: calls that overlap   *)
(***************************************************************************)
\* the log types the overlapping calls write
OverlapTypes == {"application", "error"}

\* lines 65-72: the directory and its default files are made, the timestamp
\* is taken and fs.appendFile is issued
writeLogCalled ==
  /\ appends < MaxAppends
  /\ \E c \in RecIds, logType \in OverlapTypes :
       /\ files' = createContainerLogDirectory(files, c, clock)
       /\ writes' = Append(writes, [cid |-> c, logType |-> logType,
                                    content |-> EntryContent(appends + 1),
                                    timestamp |-> clock, pc |-> "append"])
  /\ appends' = appends + 1
  /\ UNCHANGED <<rotated, clock, appended, logOp, rotations, logStreams, streamOut,
                 watchPending>>
  /\ UNCHANGED <<reconVars, wsVars, callVars, running, stopPc, stops, rotPc>>

\* line 74: the fs.appendFile of a call completes; the file is created when
\* there is none at the path
writeLogAppended ==
  /\ \E n \in 1..Len(writes) :
       LET w == writes[n]
       IN /\ w.pc = "append"
          /\ files' = appendFile(files, w.cid, w.logType, LogLine(w.timestamp, w.content), clock)
          /\ appended' = [appended EXCEPT ![w.cid][w.logType] = Append(@, w.content)]
          /\ watchPending' = IF FileExists(files, w.cid, w.logType)
                             THEN watchPending \cup {<<w.cid, w.logType>>}
                             ELSE watchPending
          /\ writes' = [writes EXCEPT ![n].pc = "lookup"]
  /\ UNCHANGED <<rotated, clock, logOp, appends, rotations, logStreams, streamOut>>
  /\ UNCHANGED <<reconVars, wsVars, callVars, running, stopPc, stops, rotPc>>

\* lines 77-78, 82-88: Container.findById resolves; without a row the call
\* notifies at once
writeLogFound ==
  /\ \E n \in 1..Len(writes) :
       LET w == writes[n]
       IN /\ w.pc = "lookup"
          /\ IF registry[w.cid] # NoRec
             THEN /\ writes' = [writes EXCEPT ![n].pc = "insert"]
                  /\ UNCHANGED streamOut
             ELSE /\ writes' = [writes EXCEPT ![n].pc = "done"]
                  /\ streamOut' = notifyLogUpdate(streamOut, logStreams, w.cid,
                                    [timestamp |-> w.timestamp, content |-> w.content,
                                     source |-> "application", type |-> w.logType])
  /\ UNCHANGED <<files, rotated, clock, appended, logOp, appends, rotations, logStreams,
                 watchPending>>
  /\ UNCHANGED <<reconVars, wsVars, callVars, running, stopPc, stops, rotPc>>

\* lines 79, 82-88: container.addLog resolves and the call notifies
writeLogInserted ==
  /\ \E n \in 1..Len(writes) :
       LET w == writes[n]
       IN /\ w.pc = "insert"
          /\ dbLogs' = addLog(dbLogs, w.cid, w.content, w.logType)
          /\ streamOut' = notifyLogUpdate(streamOut, logStreams, w.cid,
                            [timestamp |-> w.timestamp, content |-> w.content,
                             source |-> "application", type |-> w.logType])
          /\ writes' = [writes EXCEPT ![n].pc = "done"]
  /\ UNCHANGED <<files, rotated, clock, appended, logOp, appends, rotations, logStreams,
                 watchPending>>
  /\ UNCHANGED <<registry, engine, syncVars, hmVars, orphanVars, restartVars>>
  /\ UNCHANGED <<wsVars, callVars, running, stopPc, stops, rotPc>>

\* lines 301-307: rotateLogs is called and lists the directory
rotateLogsCalled ==
  /\ rotations < MaxRotations
  /\ rotPc = NoRotation
  /\ \E c \in RecIds, maxSize \in SizeLimits :
       \E order \in Listings({cat \in Categories : FileExists(files, c, cat)}) :
         /\ order # <<>>
         /\ rotPc' = [cid |-> c, maxSize |-> maxSize, rest |-> order, stage |-> "stat"]
         /\ logOp' = [op |-> "rotate", cid |-> c, arg |-> maxSize, result |-> 0]
  /\ rotations' = rotations + 1
  /\ UNCHANGED <<files, rotated, clock, appended, appends, logStreams, streamOut,
                 watchPending>>
  /\ UNCHANGED <<reconVars, wsVars, callVars, running, stopPc, stops, writes>>

\* lines 309-313: the next file of the listing is not over the limit
rotateLogsPasses ==
  /\ rotPc.stage = "stat"
  /\ rotPc.rest # <<>>
  /\ FileSize(files[rotPc.cid][Head(rotPc.rest)]) <= rotPc.maxSize
  /\ rotPc' = [rotPc EXCEPT !.rest = Tail(@)]
  /\ UNCHANGED logVars
  /\ UNCHANGED <<reconVars, wsVars, callVars, running, stopPc, stops, writes>>

\* lines 311-318: the file is over the limit and is renamed
rotateLogsRenames ==
  /\ rotPc.stage = "stat"
  /\ rotPc.rest # <<>>
  /\ LET c == rotPc.cid
         cat == Head(rotPc.rest)
     IN /\ FileSize(files[c][cat]) > rotPc.maxSize
        /\ rotated' = rename(rotated, c, cat, clock, files[c][cat])
        /\ files' = [files EXCEPT ![c][cat] = NoFile]
  /\ rotPc' = [rotPc EXCEPT !.stage = "truncate"]
  /\ UNCHANGED <<clock, appended, logOp, appends, rotations, logStreams, streamOut,
                 watchPending>>
  /\ UNCHANGED <<reconVars, wsVars, callVars, running, stopPc, stops, writes>>

\* line 319: fs.writeFile(filePath, '') leaves an empty file at the path
rotateLogsTruncates ==
  /\ rotPc.stage = "truncate"
  /\ LET c == rotPc.cid
         cat == Head(rotPc.rest)
     IN /\ files' = [files EXCEPT ![c][cat] = [content |-> <<>>, mtime |-> clock]]
        /\ appended' = [appended EXCEPT ![c][cat] = <<>>]
  /\ rotPc' = [rotPc EXCEPT !.stage = "note"]
  /\ UNCHANGED <<rotated, clock, logOp, appends, rotations, logStreams, streamOut,
                 watchPending>>
  /\ UNCHANGED <<reconVars, wsVars, callVars, running, stopPc, stops, writes>>

\* lines 321-325: the rotation is logged with writeLog, and the loop goes on
rotateLogsNotes ==
  /\ rotPc.stage = "note"
  /\ \E st \in {writeLog(LogStore, rotPc.cid, RotationNote(Head(rotPc.rest)), "info", clock)} :
       /\ files' = st.files
       /\ dbLogs' = st.logs
       /\ appended' = st.appended
       /\ streamOut' = st.out
       /\ watchPending' = st.watch
  /\ rotPc' = [rotPc EXCEPT !.rest = Tail(@), !.stage = "stat"]
  /\ UNCHANGED <<rotated, clock, logOp, appends, rotations, logStreams>>
  /\ UNCHANGED <<registry, engine, syncVars, hmVars, orphanVars, restartVars>>
  /\ UNCHANGED <<wsVars, callVars, running, stopPc, stops, writes>>

\* line 327: every file of the listing was visited
rotateLogsReturns ==
  /\ rotPc.stage = "stat"
  /\ rotPc.rest = <<>>
  /\ rotPc' = NoRotation
  /\ UNCHANGED logVars
  /\ UNCHANGED <<reconVars, wsVars, callVars, running, stopPc, stops, writes>>

NextOverlap ==
  \/ addLogStream
  \/ writeLogCalled
  \/ writeLogAppended
  \/ writeLogFound
  \/ writeLogInserted
  \/ rotateLogsCalled
  \/ rotateLogsPasses
  \/ rotateLogsRenames
  \/ rotateLogsTruncates
  \/ rotateLogsNotes
  \/ rotateLogsReturns

SpecOverlap == InitChannel /\ [][NextOverlap]_vars

(***************************************************************************)
(* The scheduler.  setupScheduledTasks hands each callback to cron.schedule *)
(* with no options; the scheduler calls the callback at every time that     *)
(* matches the expression and does not wait for the promise an earlier call *)
(* returned.  The callbacks keep no flag of their own.                      *)
(***************************************************************************)
MaxOverlap == 2

\* a time matching the expression of task t passes: its callback begins
cronFires(t) ==
  /\ running[t] < MaxOverlap
  /\ running' = [running EXCEPT ![t] = @ + 1]
  /\ UNCHANGED <<reconVars, logVars, wsVars, callVars, stopPc, stops, writes, rotPc>>

\* the promise of a callback of task t settles (its try/catch swallows a throw)
tickCompletes(t) ==
  /\ running[t] > 0
  /\ running' = [running EXCEPT ![t] = @ - 1]
  /\ UNCHANGED <<reconVars, logVars, wsVars, callVars, stopPc, stops, writes, rotPc>>

InitCron == InitReconIdle /\ InitLogIdle /\ InitChannelIdle /\ InitCallIdle /\ InitTaskIdle

NextCron ==
  \/ \E t \in Tasks : cronFires(t)
  \/ \E t \in Tasks : tickCompletes(t)

SpecCron == InitCron /\ [][NextCron]_vars


(***************************************************************************)
(* Properties of Sync.                                                     *)
(***************************************************************************)
SyncJustRan == lastOp \in {"sync", "sync2"}

\* the engine object holding the record's engineRef (0 when there is none)
RefMatch(list, r) ==
  IF \E i \in 1..Len(list) : list[i].dockerId = r.docker_id
  THEN CHOOSE i \in 1..Len(list) : list[i].dockerId = r.docker_id
  ELSE 0

\* the engine object carrying the record's name (0 when there is none)
NameMatch(list, r) ==
  IF \E i \in 1..Len(list) : list[i].name = r.name
  THEN CHOOSE i \in 1..Len(list) : list[i].name = r.name
  ELSE 0

\* the matching rule: by engineRef first, falling back to name equality
RuleMatch(list, r) ==
  IF RefMatch(list, r) # 0 THEN RefMatch(list, r) ELSE NameMatch(list, r)

\* C2: after a Sync tick that completes, every record with a matching engine
\* object (by engineRef first, else by name) has that object's status, and a
\* record that had no engineRef carries that object's engineRef.
C2_SyncAdoptsEngineState ==
  [][(lastOp' \in {"sync", "sync2"} /\ ~syncResult'.threw) =>
       \A id \in Present(registry) :
         LET r == registry[id]
             k == RuleMatch(engine, r)
         IN k # 0 =>
              /\ registry'[id].status = engine[k].status
              /\ (r.docker_id = NoDockerId => registry'[id].docker_id = engine[k].dockerId)]_vars

C10_EngineRefWins ==
  SyncJustRan =>
    \A id \in RecIds :
      (syncPairs[id] >= 0 /\ registry[id] # NoRec) =>
        LET ref == RefMatch(engine, registry[id])
            nm == NameMatch(engine, registry[id])
        IN (ref # 0 /\ nm # 0 /\ ref # nm) => syncPairs[id] = ref

(***************************************************************************)
(* Properties of the Health Monitor.                                       *)
(***************************************************************************)
\* the position of the last row equal to row in a log (0 when there is none)
LastIndex(log, row) ==
  IF \E i \in 1..Len(log) : log[i] = row
  THEN CHOOSE i \in 1..Len(log) : log[i] = row /\ \A j \in (i + 1)..Len(log) : log[j] # row
  ELSE 0

\* C4: the Health Monitor invokes the restart only for a container whose
\* settings row has auto-restart enabled; for any other container found not
\* running it only sets the status to stopped and logs the discrepancy.
C4_NoRestartWhenDisabled ==
  [][\A id \in RecIds :
       /\ restartCalls'[id] > restartCalls[id] => settings[id] = "on"
       /\ (settings[id] # "on" /\ registry[id].status = "running" /\ registry'[id].status = "stopped") =>
            /\ dbLogs'[id] = Append(dbLogs[id], HealthStoppedRow)
            /\ engine' = engine
            /\ hmPc' # "restart"
            /\ restartCalls' = restartCalls]_vars

\* a tick has marked stopped a container that has no settings row
C4_Witness ==
  \E id \in RecIds :
    /\ settings[id] = "none"
    /\ registry[id] # NoRec
    /\ registry[id].status = "stopped"
    /\ dbLogs[id] = <<HealthStoppedRow>>
    /\ hmPc = "idle"

\* C5: the restart is attempted only after the record was set to stopped and
\* the health-check entry logged; after a successful restart the record is
\* running at the end of the tick and the health-check entry precedes the
\* restarted entry in the container's log.
C5_StoppedThenRestarted ==
  /\ hmPc = "restart" =>
       LET id == Head(hmList).id
       IN /\ registry[id].status = "stopped"
          /\ LastIndex(dbLogs[id], HealthStoppedRow) > LastIndex(dbLogs[id], RestartedRow)
  /\ hmPc = "idle" =>
       \A id \in hmRestarted :
         /\ registry[id].status = "running"
         /\ LastIndex(dbLogs[id], HealthStoppedRow) > 0
         /\ LastIndex(dbLogs[id], HealthStoppedRow) < LastIndex(dbLogs[id], RestartedRow)

\* a tick has ended in which a restart succeeded
C5_Witness == hmPc = "idle" /\ hmRestarted # {}

\* C6: a failed health-driven restart is not retried within the tick, and a
\* tick that begins with the container still stopped, auto-restart enabled
\* and its last health-driven restart failed attempts the restart again.
C6_RetryOnNextTick ==
  /\ \A id \in RecIds : restartCalls[id] <= 1
  /\ hmPc = "idle" =>
       \A id \in retryDue :
         (/\ AutoRestartOn(id)
          /\ LET k == EngineIndex(engine, registry[id].docker_id)
             IN k # 0 /\ engine[k].status # "running")
           => restartCalls[id] >= 1

(***************************************************************************)
(* Properties of the log store.                                            *)
(***************************************************************************)
\* the contents of the entries a read returned
ContentsOf(logs) == [i \in 1..Len(logs) |-> logs[i].content]

\* the last n elements of a sequence, all of them when it is shorter
LastN(seq, n) ==
  IF Len(seq) > n THEN SubSeq(seq, Len(seq) - n + 1, Len(seq)) ELSE seq

\* C7: after any sequence of appends to one container and category, tail with
\* limit n >= 1 returns exactly the last min(n, number of appends) entries,
\* their contents in append order.
C7_TailReturnsLastEntries ==
  \A c \in RecIds, cat \in Categories, n \in 1..MaxTail :
    ContentsOf(readLogs(files, c, cat, n, -1, clock)) = LastN(appended[c][cat], n)

\* a step of rotateLogs
RotateStep == rotations' = rotations + 1

\* the lines writeLog appends for the rotation of the files cats, in order
RECURSIVE RotationLines(_, _)
RotationLines(cats, now) ==
  IF cats = <<>> THEN <<>>
  ELSE LogLine(now, RotationNote(Head(cats))) \o RotationLines(Tail(cats), now)

\* the contents of the rotation entries for the files cats
RotationNotes(cats) == [i \in 1..Len(cats) |-> RotationNote(cats[i])]

\* the position of the info file in a listing, 0 when it is not listed
InfoAt(order) ==
  IF \E i \in 1..Len(order) : order[i] = "info"
  THEN CHOOSE i \in 1..Len(order) : order[i] = "info"
  ELSE 0

\* the files other than info of order[from..to] whose size exceeds maxSize
Oversize(c, order, from, to, maxSize) ==
  SelectSeq(SubSeq(order, from, to),
            LAMBDA cat : cat # "info" /\ FileSize(files[c][cat]) > maxSize)

\* the info file as the scan finds it: with the entries of the rotations of
\* the files listed before it
InfoAtScan(c, order, maxSize) ==
  files[c]["info"].content
    \o RotationLines(Oversize(c, order, 1, InfoAt(order) - 1, maxSize), clock)

InfoRotated(c, order, maxSize) ==
  InfoAt(order) > 0 /\ Len(InfoAtScan(c, order, maxSize)) > maxSize

\* the rotated file a rotation of (c, cat) leaves at the current time
RotatedNow(c, cat) ==
  {f \in rotated' : f.cid = c /\ f.cat = cat /\ f.stamp = clock}

\* what rotateLogs does to the files other than info: an oversize file is
\* moved unchanged to its rotated name and the active file is empty
RotatesOthers(c, order, maxSize) ==
  \A cat \in Categories \ {"info"} :
    (FileExists(files, c, cat) /\ FileSize(files[c][cat]) > maxSize) =>
       /\ \E f \in RotatedNow(c, cat) :
            /\ f.content = files[c][cat].content
            /\ f.mtime = files[c][cat].mtime
       /\ readLogs(files', c, cat, MaxTail, -1, clock') = <<>>
       /\ files'[c][cat].content = <<>>

\* what rotateLogs does to the info file when it rotates it
RotatesInfo(c, order, maxSize) ==
  InfoRotated(c, order, maxSize) =>
     /\ \E f \in RotatedNow(c, "info") : f.content = InfoAtScan(c, order, maxSize)
     /\ ContentsOf(readLogs(files', c, "info", 0, -1, clock'))
          = RotationNotes(<<"info">> \o Oversize(c, order, InfoAt(order) + 1, Len(order), maxSize))

\* files that rotateLogs has no reason to touch
OthersUntouched(c, maxSize, cats) ==
  /\ \A d \in RecIds \ {c} : files'[d] = files[d]
  /\ \A cat \in cats :
       (FileExists(files, c, cat) /\ FileSize(files[c][cat]) <= maxSize) =>
          files'[c][cat] = files[c][cat]

\* an info file that is not rotated gains the rotation entries and nothing else
InfoGainsNotes(c, order, maxSize) ==
  ~InfoRotated(c, order, maxSize) =>
     files'[c]["info"].content =
        files[c]["info"].content \o RotationLines(Oversize(c, order, 1, Len(order), maxSize), clock)

\* C8 as stated: for some order in which the directory was listed, a rotated
\* file holds the pre-rotation entries unchanged, tail on the active file
\* then returns only entries written after the rotation, and every file
\* whose size does not exceed maxBytes is left untouched.
C8_RotateLeavesSmallFiles ==
  [][RotateStep =>
       LET c == logOp'.cid
           maxSize == logOp'.arg
       IN \E order \in Listings({cat \in Categories : FileExists(files, c, cat)}) :
          /\ RotatesOthers(c, order, maxSize)
          /\ RotatesInfo(c, order, maxSize)
          /\ OthersUntouched(c, maxSize, Categories)]_vars

\* C8: for some order in which the directory was listed, a rotated file
\* holds the entries the file had when it was rotated, unchanged; tail on
\* the active file then returns only entries written after the rotation; a
\* file of another category than info whose size does not exceed maxBytes
\* is left untouched, and the info file gains one rotation entry per rotated
\* file and is rotated itself when these make it exceed maxBytes before the
\* scan reaches it.
C8_RotateRoundTrip ==
  [][RotateStep =>
       LET c == logOp'.cid
           maxSize == logOp'.arg
       IN \E order \in Listings({cat \in Categories : FileExists(files, c, cat)}) :
          /\ RotatesOthers(c, order, maxSize)
          /\ RotatesInfo(c, order, maxSize)
          /\ OthersUntouched(c, maxSize, Categories \ {"info"})
          /\ InfoGainsNotes(c, order, maxSize)]_vars

\* a rotation has moved a file with entries aside, left a smaller file alone
\* and recorded the rotation in the info file
C8_Witness ==
  /\ logOp.op = "rotate"
  /\ \E f \in rotated :
       /\ f.cid = logOp.cid /\ f.cat # "info" /\ f.stamp = clock /\ f.content # <<>>
       /\ files[f.cid][f.cat].content = <<>>
       /\ \E cat \in Categories \ {"info", f.cat} :
            /\ files[f.cid][cat].content # <<>>
            /\ FileSize(files[f.cid][cat]) <= logOp.arg
       /\ ContentsOf(readLogs(files, f.cid, "info", 1, -1, clock)) = <<RotationNote(f.cat)>>

\* a step of cleanupOldLogs
CleanupStep ==
  logOp'.op = "cleanup" /\ clock' = clock /\ appends' = appends /\ rotations' = rotations

\* C9: cleanupOldLogs deletes exactly the rotated files, of every container,
\* whose modification time precedes the cutoff; it deletes no active file
\* and no rotated file that is not older than the cutoff, and the count it
\* returns is the number of files it deleted.
C9_CleanupDeletesOldRotated ==
  [][CleanupStep =>
       LET old == {f \in rotated : f.mtime < clock - logOp'.arg}
       IN /\ rotated' = rotated \ old
          /\ files' = files
          /\ logOp'.result = Cardinality(old)]_vars

\* a cleanup has deleted one rotated file and kept another, with active
\* files older than the cutoff in place
C9_Witness ==
  /\ logOp.op = "cleanup"
  /\ logOp.result = 1
  /\ rotated # {}
  /\ \E c \in RecIds, cat \in Categories :
       FileExists(files, c, cat) /\ files[c][cat].mtime < clock - logOp.arg

(***************************************************************************)
(* Properties of the channel.                                              *)
(***************************************************************************)
\* connection w has been sent entry p = <<container, number>> as a log_entry
Delivered(w, p) ==
  \E i \in 1..Len(inbox[w]) :
    /\ inbox[w][i].type = "log_entry"
    /\ inbox[w][i].container_id = p[1]
    /\ inbox[w][i].log.content = EntryContent(p[2])

\* C1: a connection that has subscribed to a container and stays open and
\* subscribed is eventually sent, as a log_entry, every entry written to the
\* container with writeLog after the subscription; and a log_entry that is
\* not part of a replay is an entry written after the subscription.
C1_SubscriberReceivesEntries ==
  /\ [](\A w \in ConnIds : \A i \in 1..Len(inbox[w]) :
          (inbox[w][i].type = "log_entry" /\ inbox[w][i].via # "replay") =>
             \E p \in liveFor[w] : inbox[w][i].log.content = EntryContent(p[2]))
  /\ \A w \in ConnIds, c \in RecIds, k \in 1..MaxAppends :
       (<<c, k>> \in liveFor[w]) ~> (<<c, k>> \notin liveFor[w] \/ Delivered(w, <<c, k>>))

(***************************************************************************)
(* Properties of the reconciler.                                           *)
(***************************************************************************)
NotFoundRow == LogRow("Container not found in Docker, marked as stopped", "warning")

\* a syncContainers tick that returned its counts
SyncCompletes == syncContainers /\ ~syncResult'.threw

ImportedRow == LogRow("Container auto-imported from Docker", "info")

\* the engine objects that carry the label and match no record of the registry
Unowned(reg, list) ==
  {i \in 1..Len(list) :
     list[i].labelled /\ ~\E j \in Present(reg) : MatchesDocker(reg[j], list[i])}

\* the records a tick created are those of the labelled engine objects that
\* matched no record, with the object's name, docker_id and status, and the
\* tick returned their number as its created count
ImportsUnowned ==
  LET imp == Unowned(registry, engine)
      new == Present(registry') \ Present(registry)
  IN /\ Cardinality(new) = Cardinality(imp)
     /\ syncResult'.created = Cardinality(new)
     /\ \A i \in imp : \E id \in new :
           registry'[id] = [name |-> engine[i].name, docker_id |-> engine[i].dockerId,
                            status |-> engine[i].status]
     /\ \A id \in new : \E i \in imp : registry'[id].docker_id = engine[i].dockerId

CleanupTick == cleanups' = cleanups + 1

\* the inspect of the record's engine object, in the tick just made, failed
\* with 'No such container'
InspectNotFound(id) ==
  /\ registry[id].docker_id # NoDockerId
  /\ id \notin orphanFaults'
  /\ EngineIndex(engine, registry[id].docker_id) = 0

\* C13: an Orphan Cleanup tick marks a record removed, and logs the warning,
\* exactly when the record has a docker_id and the inspect of its engine
\* object fails with 'No such container'; when the inspect succeeds or fails
\* with another fault, and when the record has no docker_id, the record and
\* its log are left as they were.
C13_RemovedIffNotFound ==
  [][CleanupTick =>
       \A id \in Present(registry) :
         IF InspectNotFound(id)
         THEN /\ registry'[id] = [registry[id] EXCEPT !.status = "removed"]
              /\ dbLogs'[id] = Append(dbLogs[id], RemovedRow)
         ELSE /\ registry'[id] = registry[id]
              /\ dbLogs'[id] = dbLogs[id]]_vars

\* a cleanup tick has marked one record removed and left alone another whose
\* engine object is gone as well but whose inspect failed with another fault
C13_Witness ==
  /\ lastOp = "orphan"
  /\ orphanResult = 1
  /\ \E id \in Present(registry) :
       /\ registry[id].status = "removed"
       /\ dbLogs[id] = <<RemovedRow>>
  /\ \E id \in orphanFaults :
       /\ registry[id].docker_id # NoDockerId
       /\ EngineIndex(engine, registry[id].docker_id) = 0
       /\ registry[id].status = "running"
       /\ dbLogs[id] = <<>>

\* C14: a record that Orphan Cleanup has marked removed keeps the status
\* removed through every step of Sync, of the Health Monitor and of Orphan
\* Cleanup for as long as the engine has no object with its docker_id.
C14_RemovedStaysRemoved ==
  [][\A id \in Present(registry) :
       (/\ registry[id].status = "removed"
        /\ EngineIndex(engine, registry[id].docker_id) = 0
        /\ EngineIndex(engine', registry[id].docker_id) = 0)
         => registry'[id].status = "removed"]_vars

(***************************************************************************)
(* Properties of the restart operation.                                    *)
(***************************************************************************)
\* a direct call of restartContainer
RestartStep == restarts' = restarts + 1

\* the call just made could not succeed: the record is missing, it has no
\* docker_id, or the engine's restart call fails
RestartMustFail ==
  LET id == restartOut'.id
  IN \/ registry[id] = NoRec
     \/ registry[id].docker_id = NoDockerId
     \/ ~restartOut'.ok
     \/ EngineIndex(engine, registry[id].docker_id) = 0

\* C15: when restartContainer fails because the record is missing, because
\* it has no docker_id or because the engine's restart call fails, the
\* failure is thrown to the caller, no record changes (the status is the one
\* before the call), no startup script is scheduled, and when the record
\* exists the last row added to its log is the error row of the failure.
C15_FailedRestartKeepsStatus ==
  [][(RestartStep /\ RestartMustFail) =>
       LET id == restartOut'.id
       IN /\ restartOut'.threw
          /\ registry' = registry
          /\ pendingScripts' = pendingScripts
          /\ \A j \in RecIds \ {id} : dbLogs'[j] = dbLogs[j]
          /\ IF registry[id] = NoRec
             THEN dbLogs'[id] = dbLogs[id]
             ELSE /\ Len(dbLogs'[id]) > Len(dbLogs[id])
                  /\ SubSeq(dbLogs'[id], 1, Len(dbLogs[id])) = dbLogs[id]
                  /\ dbLogs'[id][Len(dbLogs'[id])] = LogRow("Container restart failed", "error")]_vars

\* a restart of a running record has failed in the engine: the record is
\* still running and the failure is the last row of its log
C15_Witness ==
  /\ restartOut.threw
  /\ restartOut.id \in Present(registry)
  /\ registry[restartOut.id].status = "running"
  /\ registry[restartOut.id].docker_id # NoDockerId
  /\ dbLogs[restartOut.id] = <<RestartInitiatedRow, RestartFailedRow>>

\* a startup script starts
ScriptStep == pendingScripts' # pendingScripts /\ pendingScripts' \subseteq pendingScripts

\* C16: a restart whose engine call succeeds sets the record running, logs
\* the restart and returns success without a row of the startup script in
\* the log; the startup script starts in a later step, not before the grace
\* delay has passed since the restart, and however it ends it changes neither
\* the registry nor what the restart returned.
C16_ScriptAfterGraceDelay ==
  [][/\ (RestartStep /\ ~RestartMustFail) =>
          LET id == restartOut'.id
          IN /\ ~restartOut'.threw
             /\ restartOut'.status = "running"
             /\ registry' = [registry EXCEPT ![id].status = "running"]
             /\ dbLogs' = [dbLogs EXCEPT ![id] = @ \o <<RestartInitiatedRow, RestartedRow>>]
             /\ scriptOut' = scriptOut
             /\ startupScript[id] =>
                   \E e \in pendingScripts' \ pendingScripts : e.id = id /\ e.at = clock
             /\ ~startupScript[id] => pendingScripts' = pendingScripts
     /\ ScriptStep =>
          /\ ~RestartStep
          /\ clock >= scriptOut'.at + GraceDelay
          /\ registry' = registry
          /\ restartOut' = restartOut]_vars

\* the startup script of a restarted record has failed, after the grace
\* delay, and the record is running
C16_Witness ==
  /\ scriptOut.outcome = "stream error"
  /\ ~restartOut.threw
  /\ restartOut.id = scriptOut.id
  /\ registry[scriptOut.id].status = "running"
  /\ dbLogs[scriptOut.id] = <<RestartInitiatedRow, RestartedRow, ExecutingRow, ScriptFailedRow>>

(***************************************************************************)
(* Properties of the channel's operations                                  *)
(***************************************************************************)
\* a step that handles one client message; wsIn' is that message
MessageStep == wsMessages' = wsMessages + 1

\* the step sends exactly one more event to w, an error event
ErrorSent(w) ==
  /\ Len(inbox'[w]) = Len(inbox[w]) + 1
  /\ SubSeq(inbox'[w], 1, Len(inbox[w])) = inbox[w]
  /\ inbox'[w][Len(inbox'[w])].type = "error"

\* the operations that need an authenticated connection
GuardedTypes == {"subscribe_logs", "unsubscribe_logs", "execute_command", "get_container_status"}

\* C17: subscribe, unsubscribe, exec and status on a connection that is not
\* authenticated are each rejected with an error event, and the step changes
\* neither a subscriber set nor the exec streams; the connection stays open
\* and its session is as before, so it can still authenticate.
C17_UnauthenticatedRejected ==
  [][(MessageStep /\ wsIn'.type \in GuardedTypes /\ ~session[wsIn'.ws].authenticated) =>
        /\ ErrorSent(wsIn'.ws)
        /\ containerStreams' = containerStreams
        /\ execStreams' = execStreams
        /\ conn'[wsIn'.ws] = "open"
        /\ session' = session]_vars

\* C18: an authenticate with a missing or an invalid token gets an error
\* event and leaves the connection open with its session and the client map
\* as they were; a subscribe on a connection that is not authenticated is
\* rejected; an authenticate with a valid token on an open connection
\* succeeds whatever was attempted before.
C18_FailedAuthenticationKeepsConnection ==
  [][MessageStep =>
       LET w == wsIn'.ws
       IN /\ (wsIn'.type = "authenticate" /\ wsIn'.token \notin Tokens) =>
                /\ ErrorSent(w)
                /\ conn' = conn
                /\ conn'[w] = "open"
                /\ session' = session
                /\ clients' = clients
                /\ containerStreams' = containerStreams
          /\ (wsIn'.type = "subscribe_logs" /\ ~session[w].authenticated) =>
                /\ ErrorSent(w)
                /\ containerStreams' = containerStreams
                /\ subscribedContainers' = subscribedContainers
                /\ ~session'[w].authenticated
          /\ (wsIn'.type = "authenticate" /\ wsIn'.token \in Tokens) =>
                /\ conn[w] = "open"
                /\ session'[w].authenticated
                /\ session'[w].userId = wsIn'.token.userId
                /\ inbox'[w] = Append(inbox[w], Msg("authenticated", 0, "", NoLog, ""))]_vars

\* a connection whose authenticate was refused and whose subscribe was then
\* rejected has authenticated with a valid token
C18_Witness ==
  \E w \in ConnIds :
    /\ conn[w] = "open"
    /\ session[w].authenticated
    /\ wsIn.type = "authenticate"
    /\ Len(inbox[w]) = 4
    /\ inbox[w][2] = Msg("error", 0, "Authentication failed", NoLog, "")
    /\ inbox[w][3] = Msg("error", 0, "Authentication required", NoLog, "")
    /\ inbox[w][4].type = "authenticated"

\* the identity of the most recent successful authenticate on w
LatestClient(w) ==
  IF \E i \in 1..Len(clients) : clients[i].ws = w
  THEN clients[CHOOSE i \in 1..Len(clients) :
                 clients[i].ws = w /\ \A j \in (i + 1)..Len(clients) : clients[j].ws # w]
  ELSE [id |-> 0, ws |-> 0, userId |-> 0, role |-> ""]

\* the container exists and the latest identity of w administers or owns it
Authorised(w, c) ==
  /\ session[w].authenticated
  /\ registry[c] # NoRec
  /\ \/ LatestClient(w).role = "admin"
     \/ CreatedBy(c) = LatestClient(w).userId

\* C19: a subscribe or an exec for a container takes effect only if the
\* container exists and the identity of the connection's most recent
\* successful authenticate is an administrator or the container's owner;
\* otherwise an error event is sent, the connection is not added to the
\* subscriber set and no exec stream is opened.
C19_AccessByLatestIdentity ==
  [][(MessageStep /\ wsIn'.type \in {"subscribe_logs", "execute_command"}) =>
       LET w == wsIn'.ws
           c == wsIn'.container_id
       IN IF Authorised(w, c)
          THEN wsIn'.type = "subscribe_logs" => w \in containerStreams'[c]
          ELSE /\ ErrorSent(w)
               /\ containerStreams' = containerStreams
               /\ execStreams' = execStreams]_vars

\* position i of w's inbox is the acknowledgment of a subscribe to c
IsAck(w, i, c) ==
  inbox[w][i].type = "log_subscription_success" /\ inbox[w][i].container_id = c

\* position i of w's inbox is a log_entry for c that `via` produced
IsEntry(w, i, c, via) ==
  /\ inbox[w][i].type = "log_entry"
  /\ inbox[w][i].container_id = c
  /\ inbox[w][i].via = via

\* C20: a replayed entry for C comes after the acknowledgment of a subscribe
\* to C, replayed entries are in chronological order, and after an
\* acknowledgment no broadcast log_entry for C comes before a replayed entry
\* of that subscribe.
C20_ReplayBeforeLive ==
  \A w \in ConnIds : \A c \in RecIds : \A j \in 1..Len(inbox[w]) :
    IsEntry(w, j, c, "replay") =>
      /\ \E a \in 1..(j - 1) : IsAck(w, a, c)
      /\ \A i \in 1..(j - 1) :
           IsEntry(w, i, c, "replay") => inbox[w][i].log.timestamp <= inbox[w][j].log.timestamp
             \/ \E a \in (i + 1)..(j - 1) : IsAck(w, a, c)
      /\ \A i \in 1..(j - 1) :
           IsEntry(w, i, c, "broadcast") =>
             \/ \E a \in (i + 1)..(j - 1) : IsAck(w, a, c)
             \/ ~\E a \in 1..(i - 1) : IsAck(w, a, c)

(***************************************************************************)
(* Properties of command execution                                         *)
(***************************************************************************)
CommandTypes == {"command_started", "command_output", "command_completed", "command_error"}
TerminalTypes == {"command_completed", "command_error"}

\* the command events of invocation tag in w's inbox, in the order sent
EventsOf(w, tag) ==
  SelectSeq(inbox[w], LAMBDA m : m.type \in CommandTypes /\ m.via = tag)

\* started first and only first, a terminal event only last
InOrder(evs) ==
  \A i \in 1..Len(evs) :
    /\ (evs[i].type = "command_started") <=> (i = 1)
    /\ (evs[i].type \in TerminalTypes) => (i = Len(evs))

\* the code's own checks let the invocation through
Admitted(w, c) ==
  /\ session[w].authenticated
  /\ registry[c] # NoRec
  /\ ~AccessDenied(w, c)

\* the step handles an execute_command that the checks let through
ExecStep ==
  /\ MessageStep
  /\ wsIn'.type = "execute_command"
  /\ Admitted(wsIn'.ws, wsIn'.container_id)

\* C21 as stated: every admitted execute-command invocation sends a started
\* event to the client.
C21_EveryInvocationStarts ==
  [][ExecStep =>
       /\ Len(inbox'[wsIn'.ws]) = Len(inbox[wsIn'.ws]) + 1
       /\ inbox'[wsIn'.ws][Len(inbox'[wsIn'.ws])].type = "command_started"]_vars

\* C21: the events of an invocation whose exec stream opens are one started
\* event, then output events, then at most one terminal event, with nothing
\* after it; the started event is sent in the step that opens the stream, and
\* while the connection is open the stream's end or error sends exactly one
\* terminal event. An invocation whose stream does not open gets one error
\* event and no command event.
C21_StreamEventsInOrder ==
  /\ [](\A w \in ConnIds : \A n \in 1..MaxWsMessages : InOrder(EventsOf(w, ToString(n))))
  /\ [][ExecStep =>
          LET w == wsIn'.ws
          IN IF execStreams' # execStreams
             THEN inbox'[w] = Append(inbox[w], Msg("command_started", wsIn'.container_id, "",
                                                   NoLog, ToString(wsMessages')))
             ELSE ErrorSent(w)]_vars
  /\ [][\A s \in execStreams :
          ((\A t \in execStreams' : t.n # s.n) /\ conn[s.ws] = "open") =>
             /\ Len(inbox'[s.ws]) = Len(inbox[s.ws]) + 1
             /\ inbox'[s.ws][Len(inbox'[s.ws])].type \in TerminalTypes
             /\ inbox'[s.ws][Len(inbox'[s.ws])].via = ToString(s.n)]_vars

\* a command has started, produced output and completed on a connection,
\* and another one has ended with an error
C21_Witness ==
  \E w \in ConnIds : \E n, k \in 1..MaxWsMessages :
    /\ conn[w] = "open"
    /\ Len(EventsOf(w, ToString(n))) = 3
    /\ EventsOf(w, ToString(n))[2].type = "command_output"
    /\ EventsOf(w, ToString(n))[3].type = "command_completed"
    /\ Len(EventsOf(w, ToString(k))) >= 2
    /\ EventsOf(w, ToString(k))[Len(EventsOf(w, ToString(k)))].type = "command_error"

\* C22: every admitted execute-command invocation appends the info entry
\* that records the command to the container's log, also when the exec
\* stream cannot be opened; then the client gets an error event and the
\* failure is in the container's log as well.
C22_CommandAlwaysLogged ==
  [][ExecStep =>
       LET c == wsIn'.container_id
       IN /\ Len(dbLogs'[c]) > Len(dbLogs[c])
          /\ \E i \in (Len(dbLogs[c]) + 1)..Len(dbLogs'[c]) : dbLogs'[c][i] = CommandRow
          /\ execStreams' = execStreams =>
               /\ ErrorSent(wsIn'.ws)
               /\ \E i \in (Len(dbLogs[c]) + 1)..Len(dbLogs'[c]) : dbLogs'[c][i].type = "error"]_vars

(***************************************************************************)
(* Properties of the broadcasts and the sweep                              *)
(***************************************************************************)
\* the step is a broadcast of kind op
BroadcastStep(op) == broadcasts' = broadcasts + 1 /\ wsOp'.op = op

\* the step sends w exactly one more event, of this type and for container c
OneEvent(w, type, c) ==
  /\ Len(inbox'[w]) = Len(inbox[w]) + 1
  /\ SubSeq(inbox'[w], 1, Len(inbox[w])) = inbox[w]
  /\ inbox'[w][Len(inbox'[w])].type = type
  /\ inbox'[w][Len(inbox'[w])].container_id = c

C24_StatusOnlyToSubscribers ==
  [][BroadcastStep("broadcastContainerStatus") =>
       LET c == wsOp'.container_id
       IN \A w \in ConnIds :
            IF w \in containerStreams[c] /\ conn[w] = "open"
            THEN OneEvent(w, "container_status_change", c)
            ELSE inbox'[w] = inbox[w]]_vars

\* C25: in every reachable state the sweep leaves no connection that is not
\* open in the client table or in a subscriber set, and leaves the open ones
\* in place.
C25_SweepRemovesClosed ==
  /\ \A i \in 1..Len(SweptClients) : conn[SweptClients[i].ws] = "open"
  /\ \A c \in RecIds : \A w \in SweptStreams[c] : conn[w] = "open"
  /\ SweptClients = SelectSeq(clients, LAMBDA cl : conn[cl.ws] = "open")
  /\ \A c \in RecIds : OpenSockets(containerStreams[c]) \subseteq SweptStreams[c]

\* C30: a connection whose close event has been handled is in no
\* container's subscriber set, whatever handlers of it were in flight.
C30_ClosedNotSubscribed ==
  \A w \in ConnIds : conn[w] = "closed" => \A c \in RecIds : w \notin containerStreams[c]

(***************************************************************************)
(* Properties of the stats helpers                                         *)
(***************************************************************************)
\* the difference of two counters when both are numbers
Delta(a, b) == a[2] - b[2]
BothNumbers(a, b) == a[1] = "number" /\ b[1] = "number"

\* C26: the CPU percent is 0 whenever systemDelta is zero, negative or not a
\* number, it is never negative, and an online CPU count of 0 or an absent
\* one counts as 1.
C26_CpuPercentNeverNegative ==
  callOut # NoCall =>
    LET st == callIn.stats
        v == callOut.value
        sysOk == BothNumbers(st.system_cpu_usage, st.pre_system_cpu_usage)
                   /\ Delta(st.system_cpu_usage, st.pre_system_cpu_usage) > 0
        cpuOk == BothNumbers(st.total_usage, st.pre_total_usage)
                   /\ Delta(st.total_usage, st.pre_total_usage) > 0
        cpus == IF st.online_cpus = Undefined \/ st.online_cpus = Num(0)
                THEN 1 ELSE st.online_cpus[2]
    IN /\ v.den > 0
       /\ v.num >= 0
       /\ ~sysOk => v = Zero
       /\ (sysOk /\ cpuOk) =>
            /\ v.den = Delta(st.system_cpu_usage, st.pre_system_cpu_usage)
            /\ v.num = Delta(st.total_usage, st.pre_total_usage) * cpus * 100

\* a sample without an online CPU count has produced a positive percent
C26_Witness ==
  /\ callOut # NoCall
  /\ callIn.stats.online_cpus = Undefined
  /\ callOut.value.num = 100
  /\ callOut.value.den = 2

(***************************************************************************)
(* Properties of the update request                                        *)
(***************************************************************************)
\* C27: a client's update request for a container leaves the status of
\* every record as it was, whatever the body carries.
C27_UpdateKeepsStatus ==
  [][callOut'.fn = "put" =>
       \A id \in RecIds : registry'[id].status = registry[id].status]_vars

(***************************************************************************)
(* Properties of the log streams                                           *)
(***************************************************************************)
\* the step is a clearLogs call that returned
ClearStep == callOut = NoCall /\ callOut'.fn = "clearLogs" /\ ~callOut'.threw

\* C28: after a clear that succeeds the category's file is empty, apart from
\* the record of the clearing when the category is info; the clearing has
\* been appended to the container's info file as one line, and has been
\* written to every stream registered for the container.
C28_ClearIsRecorded ==
  [][ClearStep =>
       LET c == callIn'.cid
           logType == callIn'.logType
           line == LogLine(clock, ClearedContent(logType))
           before == IF logType = "info" \/ ~FileExists(files, c, "info")
                     THEN <<>> ELSE files[c]["info"].content
       IN /\ logType # "info" => files'[c][logType].content = <<>>
          /\ FileExists(files', c, "info")
          /\ files'[c]["info"].content = before \o line
          /\ \A s \in logStreams[c] :
               /\ Len(streamOut'[s]) = Len(streamOut[s]) + 1
               /\ streamOut'[s][Len(streamOut'[s])].content = ClearedContent(logType)]_vars

\* C29: no entry is written twice to a registered stream, and a stream only
\* carries entries that were written to the container's log.
C29_EachEntryPushedOnce ==
  \A s \in StreamIds :
    /\ \A i, j \in 1..Len(streamOut[s]) :
         i # j => streamOut[s][i].content # streamOut[s][j].content
    /\ \A i \in 1..Len(streamOut[s]) :
         \E k \in 1..appends : streamOut[s][i].content = EntryContent(k)

(***************************************************************************)
(* Properties of the close of a connection                                 *)
(***************************************************************************)
\* C31: after the close of a connection has been handled no exec stream that
\* the connection opened is still active.
C31_CloseCancelsExecStreams ==
  \A s \in execStreams : conn[s.ws] # "closed"

\* C39: a connection has at most one entry in the client table, and a
\* connection whose close has been handled has none, however many
\* authenticate messages it sent.
C39_OneClientEntryPerConnection ==
  \A w \in ConnIds :
    /\ Cardinality({i \in 1..Len(clients) : clients[i].ws = w}) <= 1
    /\ conn[w] = "closed" => \A i \in 1..Len(clients) : clients[i].ws # w

(***************************************************************************)
(* Properties of the scheduler                                             *)
(***************************************************************************)
\* C34: at no time have two callbacks of the same scheduled task begun and
\* not completed (callbacks of different tasks may run at the same time).
C34_NoOverlapOfOneTask ==
  \A t \in Tasks : running[t] <= 1

(***************************************************************************)
(* Properties of Sync: the engine reference of a record                    *)
(***************************************************************************)
\* the records that hold the engine reference d
HoldersOf(reg, d) == {i \in Present(reg) : reg[i].docker_id = d}

\* C36: after any sequence of Sync ticks no two registry records carry the
\* same engine reference, and a tick never gives a record an engine
\* reference that another record held when the tick began.
C36_EngineRefUnique ==
  /\ [](\A d \in EngineIds : Cardinality(HoldersOf(registry, d)) <= 1)
  /\ [][\A i \in Present(registry') :
          registry'[i].docker_id # NoDockerId
          /\ (i \notin Present(registry) \/ registry[i].docker_id = NoDockerId)
          => HoldersOf(registry, registry'[i].docker_id) = {}]_vars

\* a tick found a record without a reference paired, by name, with an engine
\* object whose reference another record holds, and the store refused the
\* backfill
C36_Witness ==
  /\ lastOp \in {"sync", "sync2"}
  /\ syncResult.threw
  /\ \E i \in Present(registry), j \in Present(registry), k \in 1..Len(engine) :
       /\ i # j
       /\ registry[i].docker_id = NoDockerId
       /\ registry[j].docker_id = engine[k].dockerId
       /\ FindDocker(engine, registry[i]) = k

(***************************************************************************)
(* Properties of the Health Monitor: failures inside a tick                *)
(***************************************************************************)
\* the records of a list the loop checks (line 329 passes over the others)
Checked(list) == Cardinality({i \in 1..Len(list) : list[i].docker_id # NoDockerId})

\* a step of the running tick
TickStep == hmPc # "idle" /\ <<hmPc, hmList, hmResult>>' # <<hmPc, hmList, hmResult>>

\* C35: a failure of the inspect or of the health-driven restart of one
\* container does not end the tick: the failed inspect yields an unhealthy
\* result, the failed restart is logged as an error, the records that remain
\* in the snapshot are still visited, and the tick ends only when every
\* record it checked has a health result.
C35_FailureDoesNotAbortTick ==
  [][TickStep =>
       /\ Len(hmResult') + Checked(hmList') = Len(hmResult) + Checked(hmList)
       /\ hmPc' = "idle" => hmList = <<>>
       /\ Len(hmResult') > Len(hmResult) =>
            /\ hmList' = Tail(hmList)
            /\ hmResult'[Len(hmResult')].container_id = Head(hmList).id
       /\ autoFailed' # autoFailed /\ Head(hmList).id \in autoFailed' =>
            /\ dbLogs'[Head(hmList).id] # <<>>
            /\ dbLogs'[Head(hmList).id][Len(dbLogs'[Head(hmList).id])] = AutoRestartFailedRow
            /\ hmPc' = "loop"]_vars

\* a tick whose first inspect failed and whose restart of the second record
\* failed has completed with a result for both
C35_Witness ==
  /\ hmPc = "idle"
  /\ Len(hmResult) = 2
  /\ hmResult[1].actual_status = "unknown"
  /\ ~hmResult[1].healthy
  /\ hmResult[2].container_id \in autoFailed
  /\ restartCalls[hmResult[2].container_id] = 1

(***************************************************************************)
(* Properties of the reconciler: recovery of a container that exited       *)
(***************************************************************************)
\* the engine object of the record exists and is not running
EngineDown(id) ==
  /\ registry[id] # NoRec
  /\ registry[id].docker_id # NoDockerId
  /\ EngineIndex(engine, registry[id].docker_id) # 0
  /\ engine[EngineIndex(engine, registry[id].docker_id)].status # "running"

\* C37: when a record is Running with auto-restart enabled and its engine
\* object has stopped, then, the Sync and Health Monitor ticks firing fairly
\* and in any order, a restart of the container is eventually invoked (or the
\* engine object does not stay stopped).
C37_RestartEventuallyAttempted ==
  \A id \in RecIds :
    (EngineDown(id) /\ registry[id].status = "running" /\ AutoRestartOn(id))
      ~> (restartCalls[id] > 0 \/ ~EngineDown(id))

(***************************************************************************)
(* Properties of the stop request next to the Health Monitor               *)
(***************************************************************************)
\* the stop request of a client for this record has completed
StoppedByClient(id) ==
  \E i \in 1..Len(dbLogs[id]) : dbLogs[id][i] = StoppedRow

\* C38: the Health Monitor never invokes the restart of a container whose
\* stop request has completed, however the request interleaves with a tick
\* that listed the record while it was running.
C38_ClientStopNotUndone ==
  [][\A id \in RecIds :
       StoppedByClient(id) => restartCalls'[id] <= restartCalls[id]]_vars

(***************************************************************************)
(* Properties of overlapping calls of the log service                      *)
(***************************************************************************)
\* the position of an element in a sequence, 0 when it is not in it
PositionIn(seq, x) ==
  IF \E i \in 1..Len(seq) : seq[i] = x
  THEN CHOOSE i \in 1..Len(seq) : seq[i] = x
  ELSE 0

\* the contents a stream received, in the order it received them
Received(s) == [i \in 1..Len(streamOut[s]) |-> streamOut[s][i].content]

\* call a came before call b, for the same log of the same container, and
\* the file holds the line of a before the line of b
AppendedInOrder(a, b) ==
  /\ a < b
  /\ writes[a].cid = writes[b].cid
  /\ writes[a].logType = writes[b].logType
  /\ LET text == appended[writes[a].cid][writes[a].logType]
     IN /\ PositionIn(text, writes[a].content) # 0
        /\ PositionIn(text, writes[a].content) < PositionIn(text, writes[b].content)

\* C32: two entries of one container that were appended in order reach every
\* registered stream in that order, also when the two writeLog calls overlap.
C32_NotifiedInAppendOrder ==
  \A s \in StreamIds : \A a \in 1..Len(writes), b \in 1..Len(writes) :
    /\ AppendedInOrder(a, b)
    /\ PositionIn(Received(s), writes[a].content) # 0
    /\ PositionIn(Received(s), writes[b].content) # 0
    => PositionIn(Received(s), writes[a].content) < PositionIn(Received(s), writes[b].content)

\* text holds the line somewhere
HasLine(text, line) ==
  \E i \in 1..Len(text) :
    i + Len(line) - 1 <= Len(text) /\ SubSeq(text, i, i + Len(line) - 1) = line

\* C33: whatever the interleaving of a rotation with an append to the same
\* file, the line of every call whose append has completed is in the active
\* file or in a rotated file of that log.
C33_RotationKeepsAppendedEntries ==
  \A n \in 1..Len(writes) :
    writes[n].pc # "append"
      => LET w == writes[n]
             line == LogLine(w.timestamp, w.content)
         IN \/ HasLine(files[w.cid][w.logType].content, line)
            \/ \E f \in rotated :
                 f.cid = w.cid /\ f.cat = w.logType /\ HasLine(f.content, line)

====
